---- MODULE Spec2Model ----
(***************************************************************************)
(* Model of the Circonus Terraform provider's translation layer:           *)
(*   - the Config -> API mappers (ParseConfig, checkConfigToAPI),          *)
(*   - the API -> State mappers (checkAPIToState, the Read functions),     *)
(*   - the validation run at the end of every ParseConfig,                 *)
(*   - the CRUD entry points and the vendor calls they issue.              *)
(*                                                                         *)
(* Go strings that the code inspects (len, prefix, split, parse) are       *)
(* modelled as sequences of one-character strings; strings that are only   *)
(* compared or copied are TLA+ strings.  Durations are whole milliseconds. *)
(***************************************************************************)
EXTENDS Integers, Sequences, FiniteSets, TLC

VARIABLES
    op,      \* name of the last mapper or CRUD entry point that ran ("input": none yet)
    arg,     \* the input it is given (configuration or API object)
    res,     \* what it returned
    kind,    \* what arg is: the mapper input's kind, or the resource kind
    tfid,    \* d.Id(): the Terraform ID of the resource instance
    calls,   \* vendor calls and SetId calls issued by the last entry point, in order
    diags    \* what the last CRUD entry point returned

vars == <<op, arg, res, kind, tfid, calls, diags>>

-----------------------------------------------------------------------------
(* Bounds of the model *)

\* largest number of `metric` blocks in a check configuration
MaxMetrics == 2
\* largest number of `metric_filter` blocks in a check configuration
MaxFilters == 2
\* largest number of `metric` blocks in a graph configuration
MaxGraphMetrics == 2
\* largest number of `if` blocks of a rule set configuration, and of rules
\* of an API rule set
MaxRules == 2
\* largest windowing duration of an API rule handed to Validate
MaxWindow == 2

-----------------------------------------------------------------------------
(* Go string helpers over character sequences *)

\* strings.HasPrefix / k[:n] == prefix (callers guard Len(s) >= Len(p))
HasPrefix(s, p) == Len(s) >= Len(p) /\ SubSeq(s, 1, Len(p)) = p

\* smallest index >= from at which pat occurs in s, 0 when it does not
RECURSIVE IndexFrom(_, _, _)
IndexFrom(s, pat, from) ==
    IF from + Len(pat) - 1 > Len(s) THEN 0
    ELSE IF SubSeq(s, from, from + Len(pat) - 1) = pat THEN from
    ELSE IndexFrom(s, pat, from + 1)

\* url.Parse(v).Host for an absolute URL "scheme://host[:port]/path"
URLHost(u) ==
    LET i == IndexFrom(u, <<":", "/", "/">>, 1)
        rest == IF i = 0 THEN <<>> ELSE SubSeq(u, i + 3, Len(u))
        j == IndexFrom(rest, <<"/">>, 1)
    IN  IF j = 0 THEN rest ELSE SubSeq(rest, 1, j - 1)

\* strings.SplitN(s, ":", 2)
SplitN2(s) ==
    LET i == IndexFrom(s, <<":">>, 1)
    IN  IF i = 0 THEN <<s>>
        ELSE <<SubSeq(s, 1, i - 1), SubSeq(s, i + 1, Len(s))>>

Digits == <<"0", "1", "2", "3", "4", "5", "6", "7", "8", "9">>

\* fmt.Sprintf("%d", n) for n >= 0
RECURSIVE Itoa(_)
Itoa(n) ==
    IF n < 10 THEN <<Digits[n + 1]>>
    ELSE Itoa(n \div 10) \o <<Digits[(n % 10) + 1]>>

DigitValue(ch) == CHOOSE d \in 0..9 : Digits[d + 1] = ch

IsDigit(ch) == \E d \in 0..9 : Digits[d + 1] = ch

\* strconv.ParseInt(s, 10, 64) on an unsigned decimal: [ok, val]
RECURSIVE ParseDigits(_, _)
ParseDigits(s, acc) ==
    IF s = <<>> THEN acc
    ELSE ParseDigits(Tail(s), acc * 10 + DigitValue(Head(s)))

ParseInt(s) ==
    IF s # <<>> /\ \A i \in 1..Len(s) : IsDigit(s[i])
    THEN [ok |-> TRUE, val |-> ParseDigits(s, 0)]
    ELSE [ok |-> FALSE, val |-> 0]

IsSpace(ch) == ch \in {" ", "\t", "\n", "\r"}

\* strings.TrimSpace
RECURSIVE TrimSpace(_)
TrimSpace(s) ==
    IF s = <<>> THEN s
    ELSE IF IsSpace(Head(s)) THEN TrimSpace(Tail(s))
    ELSE IF IsSpace(s[Len(s)]) THEN TrimSpace(SubSeq(s, 1, Len(s) - 1))
    ELSE s

\* all sequences over S of length at most n
SeqUpTo(S, n) == UNION {[1..k -> S] : k \in 0..n}

\* the sequences over Small of length 1..n in which one position holds an
\* element of Full
OneFull(Full, Small, n) ==
    UNION {{[s EXCEPT ![i] = b] : s \in [1..k -> Small], i \in 1..k, b \in Full} : k \in 1..n}

\* m with key k set to v (Go: m[k] = v)
MapSet(m, k, v) == [x \in DOMAIN m \cup {k} |-> IF x = k THEN v ELSE m[x]]

\* Go: m[k] on a map[Key]string, "" when the key is missing
MapGet(m, k) == IF k \in DOMAIN m THEN m[k] ELSE <<>>

EmptyMap == [x \in {} |-> <<>>]

-----------------------------------------------------------------------------
(* go-apiclient config keys used by the check mappers *)

configAuthMethod == <<"a", "u", "t", "h", "_", "m", "e", "t", "h", "o", "d">>
configAuthPassword == <<"a", "u", "t", "h", "_", "p", "a", "s", "s", "w", "o", "r", "d">>
configAuthUser == <<"a", "u", "t", "h", "_", "u", "s", "e", "r">>
configBody == <<"b", "o", "d", "y">>
configCAChain == <<"c", "a", "_", "c", "h", "a", "i", "n">>
configCertFile == <<"c", "e", "r", "t", "i", "f", "i", "c", "a", "t", "e", "_", "f", "i", "l", "e">>
configCiphers == <<"c", "i", "p", "h", "e", "r", "s">>
configCode == <<"c", "o", "d", "e">>
configExtract == <<"e", "x", "t", "r", "a", "c", "t">>
configHeaderPrefix == <<"h", "e", "a", "d", "e", "r", "_">>
configKeyFile == <<"k", "e", "y", "_", "f", "i", "l", "e">>
configMethod == <<"m", "e", "t", "h", "o", "d">>
configPayload == <<"p", "a", "y", "l", "o", "a", "d">>
configReadLimit == <<"r", "e", "a", "d", "_", "l", "i", "m", "i", "t">>
configURL == <<"u", "r", "l">>
configHTTPVersion == <<"h", "t", "t", "p", "_", "v", "e", "r", "s", "i", "o", "n">>
configRedirects == <<"r", "e", "d", "i", "r", "e", "c", "t", "s">>
configPort == <<"p", "o", "r", "t">>
configReverseSecretKey == <<"r", "e", "v", "e", "r", "s", "e", ":", "s", "e", "c", "r", "e", "t", "_", "k", "e", "y">>
configSubmissionURL == <<"s", "u", "b", "m", "i", "s", "s", "i", "o", "n", "_", "u", "r", "l">>
configGranularity == <<"g", "r", "a", "n", "u", "l", "a", "r", "i", "t", "y">>

-----------------------------------------------------------------------------
(* circonus_check: the check bundle and its http type block *)

checkStatusActive == "active"
checkStatusDisabled == "disabled"
apiCheckTypeHTTP == "http"
apiCheckTypeCloudWatchAttr == "cloudwatch"
apiCheckTypeConsulAttr == "consul"

\* an attribute the configuration leaves unset (Terraform hands out "")
Unset == -1

\* api.NewCheckBundle() wrapped by newCheck(): period 60 s, timeout 10 s,
\* status active, empty config map, no metrics, no metric filters
newCheck ==
    [ CID |-> "", Status |-> checkStatusActive, Period |-> 60, Timeout |-> 10000,
      Target |-> <<>>, Type |-> "", Config |-> EmptyMap,
      Metrics |-> <<>>, MetricFilters |-> <<>> ]

checkActiveToAPIStatus(active) ==
    IF active THEN checkStatusActive ELSE checkStatusDisabled

checkAPIStatusToBool(s) == s = checkStatusActive

\* m after the assignments m[k] = v of kvs, in order
RECURSIVE MapSetAll(_, _)
MapSetAll(m, kvs) ==
    IF kvs = <<>> THEN m
    ELSE MapSetAll(MapSet(m, Head(kvs)[1], Head(kvs)[2]), Tail(kvs))

\* the string attributes of an `http` block and the API config key of each
HTTPStringAttrs ==
    << <<"auth_method", configAuthMethod>>, <<"auth_password", configAuthPassword>>,
       <<"auth_user", configAuthUser>>, <<"body_regexp", configBody>>,
       <<"ca_chain", configCAChain>>, <<"certificate_file", configCertFile>>,
       <<"ciphers", configCiphers>>, <<"code", configCode>>,
       <<"extract", configExtract>>, <<"key_file", configKeyFile>>,
       <<"method", configMethod>>, <<"payload", configPayload>>,
       <<"url", configURL>>, <<"version", configHTTPVersion>>,
       <<"redirects", configRedirects>> >>

\* checkConfigToAPIHTTP: c with the first `http` block of l written into it
checkConfigToAPIHTTP(c, l) ==
    IF Len(l) = 0 THEN [err |-> "no http configs found in list", c |-> c]
    ELSE
      LET httpConfig == l[1]
          strs == [i \in 1..Len(HTTPStringAttrs) |->
                      <<HTTPStringAttrs[i][2], httpConfig[HTTPStringAttrs[i][1]]>>]
          hdrs == httpConfig.headers
          cfg1 == MapSetAll(c.Config, strs)
          cfg2 == [k \in DOMAIN cfg1 \cup {configHeaderPrefix \o h : h \in DOMAIN hdrs} |->
                      IF \E h \in DOMAIN hdrs : k = configHeaderPrefix \o h
                      THEN hdrs[CHOOSE h \in DOMAIN hdrs : k = configHeaderPrefix \o h]
                      ELSE cfg1[k]]
          cfg3 == MapSet(cfg2, configReadLimit, Itoa(httpConfig.read_limit))
          hostInfo == SplitN2(URLHost(httpConfig.url))
          target == IF Len(c.Target) = 0 THEN hostInfo[1] ELSE c.Target
          cfg4 == IF Len(hostInfo) > 1 /\ MapGet(cfg3, configPort) = <<>>
                  THEN MapSet(cfg3, configPort, hostInfo[2])
                  ELSE cfg3
      IN  [err |-> "",
           c |-> [c EXCEPT !.Type = apiCheckTypeHTTP, !.Config = cfg4, !.Target = target]]

\* config keys that may remain after every http attribute was extracted
whitelistedConfigKeys == {configReverseSecretKey, configSubmissionURL}

\* the keys the header loop of checkAPIToStateHTTP removes from swamp
HeaderLoopDeleted(config) ==
    {k \in DOMAIN config : ~(Len(k) <= Len(configHeaderPrefix))}

\* the headers the header loop of checkAPIToStateHTTP collects
HeaderLoopHeaders(config) ==
    LET hk == {k \in DOMAIN config :
                  /\ ~(Len(k) <= Len(configHeaderPrefix))
                  /\ SubSeq(k, 1, Len(configHeaderPrefix)) = configHeaderPrefix}
        names == {SubSeq(k, Len(configHeaderPrefix) + 1, Len(k)) : k \in hk}
    IN  [n \in names |-> config[configHeaderPrefix \o n]]

\* checkAPIToStateHTTP: the `http` state attributes read from c.Config, or the
\* PROVIDER BUG error when a key is left over in swamp
checkAPIToStateHTTP(c) ==
    LET config == c.Config
        \* saveStringConfigToState: attribute stored when the key is present
        strAttrs == {i \in 1..Len(HTTPStringAttrs) : HTTPStringAttrs[i][2] \in DOMAIN config}
        strKeys == {HTTPStringAttrs[i][2] : i \in 1..Len(HTTPStringAttrs)}
        \* saveIntConfigToState: on a parse error it returns before delete(swamp, k)
        rl == IF configReadLimit \in DOMAIN config
              THEN ParseInt(config[configReadLimit]) ELSE [ok |-> FALSE, val |-> 0]
        rlStored == configReadLimit \in DOMAIN config /\ rl.ok
        rlDeleted == ~(configReadLimit \in DOMAIN config) \/ rl.ok
        swamp == ((DOMAIN config \ strKeys) \ HeaderLoopDeleted(config))
                     \ (IF rlDeleted THEN {configReadLimit} ELSE {})
        names == {HTTPStringAttrs[i][1] : i \in strAttrs} \cup {"headers"}
                     \cup (IF rlStored THEN {"read_limit"} ELSE {})
        httpConfig == [a \in names |->
                         IF a = "headers" THEN HeaderLoopHeaders(config)
                         ELSE IF a = "read_limit" THEN rl.val
                         ELSE config[HTTPStringAttrs[CHOOSE i \in strAttrs :
                                                        HTTPStringAttrs[i][1] = a][2]]]
    IN  IF \E k \in swamp : k \notin whitelistedConfigKeys
        THEN [err |-> "PROVIDER BUG: API Config not empty", http |-> <<>>]
        ELSE [err |-> "", http |-> httpConfig]


\* the check type blocks of the model: `http`, and `tcp` and `cloudwatch` for
\* the other type blocks of the schema
checkHTTPAttr == "http"
checkTCPAttr == "tcp"
checkCloudWatchAttr == "cloudwatch"
apiCheckTypeTCP == "tcp"

CheckTypeAttrs == {checkHTTPAttr, checkTCPAttr, checkCloudWatchAttr}

\* the orders in which a range over checkTypeParseMap can visit its keys
CheckTypeOrders ==
    {o \in [1..Cardinality(CheckTypeAttrs) -> CheckTypeAttrs] :
        \A i, j \in DOMAIN o : i # j => o[i] # o[j]}

\* checkConfigToAPITCP: the type, and the port of the first `tcp` block
checkConfigToAPITCP(c, l) ==
    IF Len(l) = 0 THEN [err |-> "no tcp configs found in list", c |-> c]
    ELSE [err |-> "",
          c |-> [c EXCEPT !.Type = apiCheckTypeTCP,
                          !.Config = MapSet(c.Config, configPort, l[1].port)]]

\* checkConfigToAPICloudWatch: the type, and the url of the first
\* `cloudwatch` block
checkConfigToAPICloudWatch(c, l) ==
    IF Len(l) = 0 THEN [err |-> "no cloudwatch configs found in list", c |-> c]
    ELSE [err |-> "",
          c |-> [c EXCEPT !.Type = apiCheckTypeCloudWatchAttr,
                          !.Config = MapSet(c.Config, configURL, l[1].url)]]

\* checkTypeParseMap[checkType](c, l)
checkTypeParseMap(checkType, c, l) ==
    IF checkType = checkHTTPAttr THEN checkConfigToAPIHTTP(c, l)
    ELSE IF checkType = checkTCPAttr THEN checkConfigToAPITCP(c, l)
    ELSE checkConfigToAPICloudWatch(c, l)

\* a dispatch that runs the mapper of every check type, present or not
RECURSIVE checkConfigToAPIEveryType(_, _, _, _, _)
checkConfigToAPIEveryType(c, d, order, i, invoked) ==
    IF i > Len(order) THEN [err |-> "", c |-> c, invoked |-> invoked]
    ELSE LET step(r) ==
                 IF r.err # ""
                 THEN [err |-> "Unable to parse type", c |-> c,
                       invoked |-> Append(invoked, order[i])]
                 ELSE checkConfigToAPIEveryType(r.c, d, order, i + 1,
                                                Append(invoked, order[i]))
         IN  step(checkTypeParseMap(order[i], c, d[order[i]]))

\* the loop of checkConfigToAPI from position i of the visiting order:
\* the mapper of a check type runs when GetOk finds its block, and its error
\* ends the loop; invoked lists the check types whose mapper ran
RECURSIVE checkConfigToAPIFrom(_, _, _, _, _)
checkConfigToAPIFrom(c, d, order, i, invoked) ==
    IF i > Len(order) THEN [err |-> "", c |-> c, invoked |-> invoked]
    ELSE IF Len(d[order[i]]) > 0
    THEN LET step(r) ==
                 IF r.err # ""
                 THEN [err |-> "Unable to parse type", c |-> c,
                       invoked |-> Append(invoked, order[i])]
                 ELSE checkConfigToAPIFrom(r.c, d, order, i + 1,
                                           Append(invoked, order[i]))
         IN  step(checkTypeParseMap(order[i], c, d[order[i]]))
    ELSE checkConfigToAPIFrom(c, d, order, i + 1, invoked)

\* a checkConfigToAPI that runs every per-type mapper
checkConfigToAPIAll(c, d, order) == checkConfigToAPIEveryType(c, d, order, 1, <<>>)

\* checkConfigToAPI: runs the per-type mapper of every type block that GetOk
\* finds, visiting the check types in the order the map range yields them
checkConfigToAPI(c, d, order) == checkConfigToAPIFrom(c, d, order, 1, <<>>)

\* a Fixup that leaves the check as it is
CheckFixupNone(c) == c

\* circonusCheck.Fixup: the granularity of a cloudwatch check follows its period
CheckFixup(c) ==
    IF c.Type = apiCheckTypeCloudWatchAttr /\ c.Period = 60
    THEN [c EXCEPT !.Config = MapSet(c.Config, configGranularity, <<"1">>)]
    ELSE IF c.Type = apiCheckTypeCloudWatchAttr /\ c.Period = 300
    THEN [c EXCEPT !.Config = MapSet(c.Config, configGranularity, <<"5">>)]
    ELSE c

\* circonusCheck.Validate without its first test: a check bundle with entries
\* in both lists passes
CheckValidateBothLists(c) ==
    IF Len(c.Metrics) = 0 /\ Len(c.MetricFilters) = 0
    THEN "You must supply metric blocks or metric_filter blocks"
    ELSE IF c.Timeout > c.Period * 1000
    THEN "Timeout can not exceed period"
    ELSE ""

\* circonusCheck.Validate comparing the timeout with the period in minutes
CheckValidatePeriodUnit(c) ==
    IF Len(c.Metrics) > 0 /\ Len(c.MetricFilters) > 0
    THEN "Metrics and MetricFilters both have entries"
    ELSE IF Len(c.Metrics) = 0 /\ Len(c.MetricFilters) = 0
    THEN "You must supply metric blocks or metric_filter blocks"
    ELSE IF c.Timeout > c.Period * 60000
    THEN "Timeout can not exceed period"
    ELSE ""

\* circonusCheck.Validate: "" when the check bundle is valid, else the error.
\* Timeout is held in milliseconds, Period in whole seconds.
CheckValidate(c) ==
    IF Len(c.Metrics) > 0 /\ Len(c.MetricFilters) > 0
    THEN "Metrics and MetricFilters both have entries"
    ELSE IF Len(c.Metrics) = 0 /\ Len(c.MetricFilters) = 0
    THEN "You must supply metric blocks or metric_filter blocks"
    ELSE IF c.Timeout > c.Period * 1000
    THEN "Timeout can not exceed period"
    ELSE IF c.Type = apiCheckTypeCloudWatchAttr /\ ~(c.Period = 60 \/ c.Period = 300)
    THEN "Period must be either 1m or 5m"
    ELSE IF c.Type = apiCheckTypeConsulAttr /\ MapGet(c.Config, configURL) = <<>>
    THEN "consul must have at least one check mode set"
    ELSE ""

\* circonusMetric.ParseConfigMap: the API metric of one `metric` block
metricParseConfigMap(metricAttrs) ==
    [ Name |-> metricAttrs.name, Type |-> metricAttrs.type,
      Status |-> IF metricAttrs.active THEN "active" ELSE "available" ]

\* the API filter row of one `metric_filter` block: every attribute of the
\* block is present in the attribute map, unset ones as ""
metricFilterRow(metricFilterAttrs) ==
    << metricFilterAttrs.type, metricFilterAttrs.regex, "tags",
       metricFilterAttrs.tag_query, metricFilterAttrs.comment >>

\* circonusCheck.ParseConfig on a new check, the range over checkTypeParseMap
\* visiting the check types in the given order: [err, c, invoked]
CheckParseConfig(d, order) ==
    LET \* GetOk reports a bool attribute as found only when it is true
        c1 == [newCheck EXCEPT !.Status =
                  IF d.active THEN checkActiveToAPIStatus(d.active) ELSE @]
        \* uint(d.Seconds()) drops the fraction of a second
        c2 == [c1 EXCEPT !.Period = IF d.period # Unset THEN d.period \div 1000 ELSE @]
        c3 == [c2 EXCEPT !.Metrics =
                  [i \in 1..Len(d.metric) |-> metricParseConfigMap(d.metric[i])]]
        c4 == [c3 EXCEPT !.MetricFilters =
                  IF Len(d.metric_filter) > 0
                  THEN [i \in 1..Len(d.metric_filter) |-> metricFilterRow(d.metric_filter[i])]
                  ELSE @]
        c5 == [c4 EXCEPT !.Target = IF d.target # <<>> THEN d.target ELSE @]
        c6 == [c5 EXCEPT !.Timeout = IF d.timeout # Unset THEN d.timeout ELSE @]
        \* Fixup and Validate run when checkConfigToAPI returned no error
        finish(r) ==
            IF r.err # ""
            THEN [err |-> "unable to parse check type", c |-> r.c, invoked |-> r.invoked]
            ELSE [err |-> CheckValidate(CheckFixup(r.c)), c |-> CheckFixup(r.c),
                  invoked |-> r.invoked]
    IN  finish(checkConfigToAPI(c6, d, order))


-----------------------------------------------------------------------------
(* circonus_graph: metric blocks, datapoints and their metric locators *)

configCheckPrefix == <<"/", "c", "h", "e", "c", "k">>

\* regexp config.CheckCIDRegex, ^(/check)?/([0-9]+)$ : the digits of the
\* second group when s matches, <<>> when it does not
CheckCIDDigits(s) ==
    LET rest == IF HasPrefix(s, configCheckPrefix)
                THEN SubSeq(s, Len(configCheckPrefix) + 1, Len(s)) ELSE s
        digits == IF rest # <<>> THEN Tail(rest) ELSE <<>>
    IN  IF rest # <<>> /\ Head(rest) = "/" /\ ParseInt(digits).ok THEN digits ELSE <<>>

\* a nil pointer and a pointer to v
Nil == <<>>
Ptr(v) == <<v>>

\* the dynamic values of GraphDatapoint.Derive (an interface{})
DeriveBool(b) == [type |-> "bool", b |-> b]
DeriveString(s) == [type |-> "string", s |-> s]
DeriveNil == [type |-> "nil"]
DeriveNumber(n) == [type |-> "float64", n |-> n]

\* a datapoint without a function left with a nil Derive
graphFunctionToAPINil(function) ==
    IF function # "" THEN DeriveString(function) ELSE DeriveNil

\* circonusGraph.ParseConfig: Derive is the function of the metric block, or
\* the boolean false when the function is empty
graphFunctionToAPI(function) ==
    IF function # "" THEN DeriveString(function) ELSE DeriveBool(FALSE)

\* graphRead: the type switch on datapoint.Derive; the function attribute is
\* written for a string only, any type but bool and string is an error
graphDeriveToState(derive) ==
    IF derive.type = "bool" THEN [err |-> "", function |-> Nil]
    ELSE IF derive.type = "string" THEN [err |-> "", function |-> Ptr(derive.s)]
    ELSE [err |-> "PROVIDER BUG: Unsupported type for derive", function |-> Nil]

\* graphRead over the datapoints: the first unsupported Derive ends the read
\* with its error
graphDerivesToState(datapoints) ==
    LET ds == [i \in 1..Len(datapoints) |-> graphDeriveToState(datapoints[i].Derive)]
    IN  IF \E i \in 1..Len(ds) : ds[i].err # ""
        THEN [err |-> "PROVIDER BUG: Unsupported type for derive", function |-> <<>>]
        ELSE [err |-> "", function |-> [i \in 1..Len(ds) |-> ds[i].function]]

\* the locator inputs ParseConfig extracts from one metric block
LocatorName(metricAttrs) == TrimSpace(metricAttrs.metric_name)
LocatorCAQL(metricAttrs) == TrimSpace(metricAttrs.caql)
LocatorSearch(metricAttrs) == TrimSpace(metricAttrs.search)
LocatorCheck(metricAttrs) ==
    LET digits == CheckCIDDigits(metricAttrs.check)
    IN  IF digits # <<>> THEN ParseInt(digits).val ELSE 0

\* the metric locator switch without its caql case: a block with a caql
\* query and a search expression passes
GraphLocatorErrorNoCAQLCase(metricAttrs) ==
    LET check == LocatorCheck(metricAttrs)
        name == LocatorName(metricAttrs)
        caql == LocatorCAQL(metricAttrs)
        search == LocatorSearch(metricAttrs)
    IN  IF check = 0 /\ name # <<>> THEN "locator using metric_name requires check"
        ELSE IF check > 0 /\ name = <<>> THEN "locator using check requires metric_name"
        ELSE IF check > 0 /\ (caql # <<>> \/ search # <<>>) THEN "locator issue"
        ELSE ""

\* the metric locator switch of circonusGraph.ParseConfig: the error it
\* returns for one metric block, "" when the block passes
GraphLocatorError(metricAttrs) ==
    LET check == LocatorCheck(metricAttrs)
        name == LocatorName(metricAttrs)
        caql == LocatorCAQL(metricAttrs)
        search == LocatorSearch(metricAttrs)
    IN  IF check = 0 /\ name # <<>> THEN "locator using metric_name requires check"
        ELSE IF check > 0 /\ name = <<>> THEN "locator using check requires metric_name"
        ELSE IF check > 0 /\ (caql # <<>> \/ search # <<>>) THEN "locator issue"
        ELSE IF caql # <<>> /\ (check # 0 \/ name # <<>> \/ search # <<>>) THEN "locator issue"
        ELSE IF search # <<>> /\ (check # 0 \/ name # <<>> \/ caql # <<>>) THEN "locator issue"
        ELSE ""

\* ParseConfig: the API axis of a datapoint or metric cluster, [err, axis]
graphAxisToAPI(v) ==
    IF v \in {"left", ""} THEN [err |-> "", axis |-> "l"]
    ELSE IF v = "right" THEN [err |-> "", axis |-> "r"]
    ELSE [err |-> "PROVIDER BUG: Unsupported axis attribute", axis |-> ""]

\* a reading of the API axis that knows "l" and "r" only
graphAxisToStateNoEmpty(a) ==
    IF a = "l" THEN [err |-> "", axis |-> "left"]
    ELSE IF a = "r" THEN [err |-> "", axis |-> "right"]
    ELSE [err |-> "PROVIDER BUG: Unsupported axis type", axis |-> ""]

\* graphRead: the axis attribute of a datapoint or metric cluster, [err, axis]
graphAxisToState(a) ==
    IF a \in {"l", ""} THEN [err |-> "", axis |-> "left"]
    ELSE IF a = "r" THEN [err |-> "", axis |-> "right"]
    ELSE [err |-> "PROVIDER BUG: Unsupported axis type", axis |-> ""]

\* graphRead: the axis attributes of the datapoints, then of the metric
\* clusters; the first unsupported axis ends the read with its error
graphAxesToState(g) ==
    LET axes(list) == [i \in 1..Len(list) |-> graphAxisToState(list[i].Axis)]
        firstErr(as) == IF \E i \in 1..Len(as) : as[i].err # ""
                        THEN as[CHOOSE i \in 1..Len(as) :
                                  /\ as[i].err # ""
                                  /\ \A j \in 1..(i - 1) : as[j].err = ""].err
                        ELSE ""
        result(as) == IF firstErr(as) # "" THEN [err |-> firstErr(as), axes |-> <<>>]
                      ELSE [err |-> "", axes |-> [i \in 1..Len(as) |-> as[i].axis]]
        both(m, c) == IF m.err # "" THEN [err |-> m.err, metric |-> <<>>, metric_cluster |-> <<>>]
                      ELSE IF c.err # "" THEN [err |-> c.err, metric |-> <<>>, metric_cluster |-> <<>>]
                      ELSE [err |-> "", metric |-> m.axes, metric_cluster |-> c.axes]
    IN  both(result(axes(g.Datapoints)), result(axes(g.MetricClusters)))

\* the datapoint circonusGraph.ParseConfig builds from a metric block that
\* passed the locator switch; the schema admits the axes "left" and "right"
GraphDatapoint(metricAttrs) ==
    LET check == LocatorCheck(metricAttrs)
        name == LocatorName(metricAttrs)
        caql == LocatorCAQL(metricAttrs)
        search == LocatorSearch(metricAttrs)
    IN  [ Hidden |-> ~metricAttrs.active,
          Axis |-> graphAxisToAPI(metricAttrs.axis).axis,
          Derive |-> graphFunctionToAPI(metricAttrs.function),
          MetricType |-> metricAttrs.metric_type,
          CheckID |-> IF check > 0 THEN check ELSE 0,
          MetricName |-> IF check > 0 THEN name ELSE <<>>,
          CAQL |-> IF check > 0 THEN Nil ELSE IF caql # <<>> THEN Ptr(caql) ELSE Nil,
          Search |-> IF check > 0 \/ caql # <<>> THEN Nil
                     ELSE IF search # <<>> THEN Ptr(search) ELSE Nil ]

\* circonusGraph.Validate over the datapoints: "" when valid
RECURSIVE GraphValidateFrom(_, _)
GraphValidateFrom(datapoints, i) ==
    IF i > Len(datapoints) THEN ""
    ELSE LET datapoint == datapoints[i]
         IN  IF datapoint.CheckID # 0 /\ datapoint.MetricName = <<>>
             THEN "check is set, metric_name must also be set"
             ELSE IF datapoint.CheckID = 0 /\ datapoint.MetricName # <<>>
             THEN "metric_name is set, check must also be set"
             ELSE IF datapoint.MetricType = "text" /\ datapoint.Derive.type \notin {"bool", "nil"}
             THEN "function is mutually exclusive with metric_type text"
             ELSE GraphValidateFrom(datapoints, i + 1)

GraphValidate(g) == GraphValidateFrom(g.Datapoints, 1)

\* the metric loop of circonusGraph.ParseConfig: it returns at the first
\* block the locator switch rejects
RECURSIVE GraphParseMetrics(_, _, _)
GraphParseMetrics(metricList, metricIdx, datapoints) ==
    IF metricIdx > Len(metricList) THEN [err |-> "", Datapoints |-> datapoints]
    ELSE LET e == GraphLocatorError(metricList[metricIdx])
         IN  IF e # "" THEN [err |-> e, Datapoints |-> datapoints]
             ELSE GraphParseMetrics(metricList, metricIdx + 1,
                      Append(datapoints, GraphDatapoint(metricList[metricIdx])))

\* circonusGraph.ParseConfig on a new graph: [err, g]
GraphParseConfig(d) ==
    LET r == GraphParseMetrics(d.metric, 1, <<>>)
        g == [CID |-> "", Datapoints |-> r.Datapoints]
    IN  IF r.err # "" THEN [err |-> r.err, g |-> g]
        ELSE [err |-> GraphValidate(g), g |-> g]


-----------------------------------------------------------------------------
(* circonus_rule_set: rules, criteria and windowing *)

apiRuleSetAbsent == "on absence"
apiRuleSetChanged == "on change"
apiRuleSetContains == "contains"
apiRuleSetMatch == "match"
apiRuleSetMaxValue == "max value"
apiRuleSetMinValue == "min value"
apiRuleSetNotContains == "does not contain"
apiRuleSetNotMatch == "does not match"
apiRuleSetEqValue == "equals"
apiRuleSetNotEqValue == "does not equal"

ruleSetMetricTypeNumeric == "numeric"
ruleSetMetricTypeText == "text"

\* config.NumSeverityLevels of the API client
NumSeverityLevels == 5

\* newRuleSet(): no rules, an empty contact group list for severities 1..5
newRuleSet ==
    [ CID |-> "", MetricType |-> "", MetricName |-> "", MetricPattern |-> "",
      Rules |-> <<>>,
      ContactGroups |-> [s \in 1..NumSeverityLevels |-> <<>>] ]

\* api.RuleSetRule{} with WindowingFunction nil and Wait 0
newRule ==
    [ Criteria |-> "", Value |-> [kind |-> "none"], Severity |-> 0, Wait |-> 0,
      WindowingFunction |-> Nil, WindowingDuration |-> 0, WindowingMinDuration |-> 0 ]

StringValue(s) == [kind |-> "string", s |-> s]
SecondsValue(n) == [kind |-> "seconds", n |-> n]

\* the criteria chain of ParseConfig for metric_type numeric
RuleCriteriaNumeric(rule, valueAttrs) ==
    IF valueAttrs.absent # Unset
    THEN [rule EXCEPT !.Criteria = apiRuleSetAbsent, !.Value = SecondsValue(valueAttrs.absent)]
    ELSE IF valueAttrs.changed # ""
    THEN IF valueAttrs.changed = "true" THEN [rule EXCEPT !.Criteria = apiRuleSetChanged] ELSE rule
    ELSE IF valueAttrs.min_value # ""
    THEN [rule EXCEPT !.Criteria = apiRuleSetMinValue, !.Value = StringValue(valueAttrs.min_value)]
    ELSE IF valueAttrs.max_value # ""
    THEN [rule EXCEPT !.Criteria = apiRuleSetMaxValue, !.Value = StringValue(valueAttrs.max_value)]
    ELSE IF valueAttrs.eq_value # ""
    THEN [rule EXCEPT !.Criteria = apiRuleSetEqValue, !.Value = StringValue(valueAttrs.eq_value)]
    ELSE IF valueAttrs.neq_value # ""
    THEN [rule EXCEPT !.Criteria = apiRuleSetNotEqValue, !.Value = StringValue(valueAttrs.neq_value)]
    ELSE rule

\* the criteria chain of ParseConfig for metric_type text
RuleCriteriaText(rule, valueAttrs) ==
    IF valueAttrs.absent # Unset
    THEN [rule EXCEPT !.Criteria = apiRuleSetAbsent, !.Value = SecondsValue(valueAttrs.absent)]
    ELSE IF valueAttrs.changed # ""
    THEN IF valueAttrs.changed = "true" THEN [rule EXCEPT !.Criteria = apiRuleSetChanged] ELSE rule
    ELSE IF valueAttrs.contains # ""
    THEN [rule EXCEPT !.Criteria = apiRuleSetContains, !.Value = StringValue(valueAttrs.contains)]
    ELSE IF valueAttrs.match # ""
    THEN [rule EXCEPT !.Criteria = apiRuleSetMatch, !.Value = StringValue(valueAttrs.match)]
    ELSE IF valueAttrs.not_match # ""
    THEN [rule EXCEPT !.Criteria = apiRuleSetNotMatch, !.Value = StringValue(valueAttrs.not_match)]
    ELSE IF valueAttrs.not_contain # ""
    THEN [rule EXCEPT !.Criteria = apiRuleSetNotContains, !.Value = StringValue(valueAttrs.not_contain)]
    ELSE rule

\* the `over` block of a value block: windowing is set only with a function
\* and a window duration above 0
RuleWindowing(rule, overList) ==
    IF Len(overList) = 0 THEN rule
    ELSE LET overAttrs == overList[1]
         IN  IF overAttrs.using # "" /\ overAttrs.last > 0
             THEN [rule EXCEPT !.WindowingFunction = Ptr(overAttrs.using),
                               !.WindowingDuration = overAttrs.last,
                               !.WindowingMinDuration =
                                   IF overAttrs.atleast > 0 THEN overAttrs.atleast ELSE 0]
             ELSE rule

\* the notify loop of ParseConfig: each contact group not yet registered
\* under severity sev is appended to rs.ContactGroups[sev]
RECURSIVE RuleSetNotify(_, _, _)
RuleSetNotify(contactGroups, sev, notifyList) ==
    IF notifyList = <<>> THEN contactGroups
    ELSE LET cid == Head(notifyList)
             have == IF sev \in DOMAIN contactGroups THEN contactGroups[sev] ELSE <<>>
             found == \E i \in 1..Len(have) : have[i] = cid
             next == IF found THEN contactGroups
                     ELSE [s \in DOMAIN contactGroups \cup {sev} |->
                             IF s = sev THEN Append(have, cid) ELSE contactGroups[s]]
         IN  RuleSetNotify(next, sev, Tail(notifyList))

\* circonusRuleSet.Validate: "" when the rule set is valid
RECURSIVE RuleSetValidateRules(_, _)
RuleSetValidateRules(rs, i) ==
    IF i > Len(rs.Rules) THEN ""
    ELSE LET rule == rs.Rules[i]
         IN  IF rule.Criteria = "" THEN "rule has an empty criteria"
             ELSE IF rule.WindowingMinDuration > rule.WindowingDuration
             THEN "window_min_duration greater than the window duration"
             ELSE IF rule.Criteria \in {apiRuleSetMatch, apiRuleSetNotMatch,
                                        apiRuleSetContains, apiRuleSetNotContains}
                     /\ rs.MetricType # "text"
             THEN "textual criteria but flagged as a numeric type"
             ELSE IF rule.Criteria \in {apiRuleSetMaxValue, apiRuleSetMinValue,
                                        apiRuleSetEqValue, apiRuleSetNotEqValue}
                     /\ rs.MetricType # "numeric"
             THEN "numeric criteria but flagged as a text type"
             ELSE RuleSetValidateRules(rs, i + 1)

\* circonusRuleSet.Validate comparing the window durations only of rules
\* that have a windowing function
RuleSetValidateWindowedOnly(rs) ==
    IF rs.MetricName # "" /\ rs.MetricPattern # ""
    THEN "both metric_name and metric_pattern"
    ELSE IF rs.MetricName = "" /\ rs.MetricPattern = ""
    THEN "must supply either metric_name or metric_pattern"
    ELSE IF \E i \in 1..Len(rs.Rules) : rs.Rules[i].Criteria = ""
    THEN "rule has an empty criteria"
    ELSE IF \E i \in 1..Len(rs.Rules) :
               /\ rs.Rules[i].WindowingFunction # Nil
               /\ rs.Rules[i].WindowingMinDuration > rs.Rules[i].WindowingDuration
    THEN "window_min_duration greater than the window duration"
    ELSE ""

RuleSetValidate(rs) ==
    IF rs.MetricName # "" /\ rs.MetricPattern # ""
    THEN "both metric_name and metric_pattern"
    ELSE IF rs.MetricName = "" /\ rs.MetricPattern = ""
    THEN "must supply either metric_name or metric_pattern"
    ELSE RuleSetValidateRules(rs, 1)

\* one iteration of the `if` loop of ParseConfig: [err, panic, rs]
RuleSetParseIf(rs, ifAttrs) ==
    LET thenList == ifAttrs.then
        r1 == IF Len(thenList) = 0 THEN newRule
              ELSE [newRule EXCEPT !.Wait = thenList[1].after \div 60,
                                   !.Severity = thenList[1].severity]
        cg == IF Len(thenList) = 0 THEN rs.ContactGroups
              ELSE RuleSetNotify(rs.ContactGroups, r1.Severity, thenList[1].notify)
        rs1 == [rs EXCEPT !.ContactGroups = cg]
    IN  IF Len(ifAttrs.value) = 0
        \* ruleSetValueList[0] on an empty list
        THEN [err |-> "index out of range", panic |-> TRUE, rs |-> rs1]
        ELSE IF rs.MetricType \notin {ruleSetMetricTypeNumeric, ruleSetMetricTypeText}
        THEN [err |-> "PROVIDER BUG: unsupported rule set metric type",
              panic |-> FALSE, rs |-> rs1]
        ELSE LET valueAttrs == ifAttrs.value[1]
                 r2 == IF rs.MetricType = ruleSetMetricTypeNumeric
                       THEN RuleCriteriaNumeric(r1, valueAttrs)
                       ELSE RuleCriteriaText(r1, valueAttrs)
                 r3 == RuleWindowing(r2, valueAttrs.over)
             IN  [err |-> "", panic |-> FALSE,
                  rs |-> IF r3.Criteria # ""
                         THEN [rs1 EXCEPT !.Rules = Append(rs1.Rules, r3)] ELSE rs1]

RECURSIVE RuleSetParseIfs(_, _, _)
RuleSetParseIfs(rs, ifList, i) ==
    IF i > Len(ifList) THEN [err |-> "", panic |-> FALSE, rs |-> rs]
    ELSE LET r == RuleSetParseIf(rs, ifList[i])
         IN  IF r.err # "" THEN r ELSE RuleSetParseIfs(r.rs, ifList, i + 1)

\* circonusRuleSet.ParseConfig on a new rule set: [err, panic, rs]
RuleSetParseConfig(d) ==
    LET rs0 == [newRuleSet EXCEPT !.MetricType = d.metric_type,
                                  !.MetricName = d.metric_name,
                                  !.MetricPattern = d.metric_pattern]
        r == RuleSetParseIfs(rs0, d.if, 1)
    IN  IF r.err # "" THEN r
        ELSE [err |-> RuleSetValidate(r.rs), panic |-> FALSE, rs |-> r.rs]

\* ruleSetRead: the value attribute that holds a rule of the given criteria,
\* "" for a criteria the switch does not know
ruleSetCriteriaAttr(criteria) ==
    CASE criteria = apiRuleSetAbsent -> "absent"
      [] criteria = apiRuleSetChanged -> "changed"
      [] criteria = apiRuleSetContains -> "contains"
      [] criteria = apiRuleSetMatch -> "match"
      [] criteria = apiRuleSetMaxValue -> "max_value"
      [] criteria = apiRuleSetMinValue -> "min_value"
      [] criteria = apiRuleSetEqValue -> "eq_value"
      [] criteria = apiRuleSetNotEqValue -> "neq_value"
      [] criteria = apiRuleSetNotContains -> "not_contain"
      [] criteria = apiRuleSetNotMatch -> "not_match"
      [] OTHER -> ""

\* the members of a list; `notify` is a set attribute
SeqToSet(seq) == {seq[i] : i \in 1..Len(seq)}

\* a `then` entry that carries a notify attribute whatever the severity
ruleSetThenToStateAlwaysNotify(rs, rule) ==
    [ after |-> 60 * rule.Wait, severity |-> rule.Severity,
      notify |-> Ptr(IF rule.Severity \in DOMAIN rs.ContactGroups
                     THEN SeqToSet(rs.ContactGroups[rule.Severity]) ELSE {}) ]

\* ruleSetRead: the `then` entry of a rule; after is 60 * Wait, and notify is
\* stored only for a severity above 0
ruleSetThenToState(rs, rule) ==
    [ after |-> 60 * rule.Wait, severity |-> rule.Severity,
      notify |-> IF rule.Severity > 0
                 THEN Ptr(IF rule.Severity \in DOMAIN rs.ContactGroups
                          THEN SeqToSet(rs.ContactGroups[rule.Severity]) ELSE {})
                 ELSE Nil ]

\* ruleSetRead: the `value` entry of a rule; the window is stored only when
\* the rule has a windowing function
ruleSetValueToState(rule) ==
    [ attr |-> ruleSetCriteriaAttr(rule.Criteria),
      value |-> IF rule.Criteria = apiRuleSetChanged THEN StringValue("true")
                ELSE rule.Value,
      over |-> IF rule.WindowingFunction # Nil
               THEN <<[using |-> rule.WindowingFunction[1],
                       last |-> rule.WindowingDuration,
                       atleast |-> rule.WindowingMinDuration]>>
               ELSE <<>> ]

\* ruleSetRead: the `if` list stored for a fetched rule set, one entry per
\* rule in the order of rs.Rules; an unknown criteria ends the read with an
\* error before the list is stored
ruleSetAPIToState(rs) ==
    IF \E i \in 1..Len(rs.Rules) : ruleSetCriteriaAttr(rs.Rules[i].Criteria) = ""
    THEN [err |-> "Unsupported criteria", if |-> <<>>]
    ELSE [err |-> "",
          if |-> [i \in 1..Len(rs.Rules) |->
                    [then |-> <<ruleSetThenToState(rs, rs.Rules[i])>>,
                     value |-> <<ruleSetValueToState(rs.Rules[i])>>]]]


-----------------------------------------------------------------------------
(* circonus_contact_group: getContactGroupInput *)

contactAlertOptionAttr == "alert_option"
contactEmailAttr == "email"
contactHTTPAttr == "http"
contactPagerDutyAttr == "pager_duty"
contactSlackAttr == "slack"
contactSMSAttr == "sms"
contactVictorOpsAttr == "victorops"
contactXMPPAttr == "xmpp"

\* the block attributes of a contact group that getContactGroupInput reads
ContactGroupBlockAttrs ==
    { contactAlertOptionAttr, contactEmailAttr, contactHTTPAttr, contactPagerDutyAttr,
      contactSlackAttr, contactSMSAttr, contactVictorOpsAttr, contactXMPPAttr }

\* resourceContactGroup: the container type the schema declares for a block
\* attribute
contactGroupSchemaKind(attr) ==
    IF attr \in {contactEmailAttr, contactSMSAttr, contactXMPPAttr} THEN "list" ELSE "set"

\* getContactGroupInput: the container type it asserts on the value of a
\* block attribute, v.(*schema.Set) for each of them
contactGroupAssertedKind(attr) == "set"

\* the type assertion on the value of attr panics: the SDK hands out a
\* []interface{} for a list attribute
AssertionPanics(attr) == contactGroupSchemaKind(attr) # contactGroupAssertedKind(attr)

\* api.NewContactGroup(): no reminder and no escalation for any severity
newContactGroup ==
    [ CID |-> "", Name |-> "", External |-> <<>>,
      Reminders |-> [i \in 1..NumSeverityLevels |-> 0],
      Escalations |-> [i \in 1..NumSeverityLevels |-> Nil] ]

\* an alert option stored under the severity counted from the other end
contactGroupAlertOptionToAPIReversed(cg, o) ==
    [cg EXCEPT !.Reminders[NumSeverityLevels + 1 - o.severity] =
                   IF o.reminder = Unset THEN 0 ELSE o.reminder]

\* getContactGroupInput: one alert_option written into cg at severityIndex
\* = severity - 1 (the lists of the model start at 1).  An escalation is
\* created by an escalate_after other than 0 or an escalate_to; the reminder
\* is always written, 0 when it is unset.  Durations are whole seconds.
contactGroupAlertOptionToAPI(cg, o) ==
    LET after(e) == IF o.escalate_after # Unset /\ o.escalate_after # 0
                    THEN Ptr([After |-> o.escalate_after,
                              ContactGroupCID |-> IF e = Nil THEN "" ELSE e[1].ContactGroupCID])
                    ELSE e
        to(e) == IF o.escalate_to # ""
                 THEN Ptr([After |-> IF e = Nil THEN 0 ELSE e[1].After,
                           ContactGroupCID |-> o.escalate_to])
                 ELSE e
    IN  [cg EXCEPT !.Escalations[o.severity] = to(after(@)),
                   !.Reminders[o.severity] = IF o.reminder = Unset THEN 0 ELSE o.reminder]

\* the alert_option loop, in the order of Set.List()
RECURSIVE contactGroupAlertOptionsToAPI(_, _)
contactGroupAlertOptionsToAPI(cg, alertOptionsRaw) ==
    IF alertOptionsRaw = <<>> THEN cg
    ELSE contactGroupAlertOptionsToAPI(
             contactGroupAlertOptionToAPI(cg, Head(alertOptionsRaw)), Tail(alertOptionsRaw))

\* getContactGroupInput: [err, panic, obj].  cidErr and validateErr say
\* whether failoverGroupCIDToID and validateContactGroup, which the function
\* calls, return an error.  The blocks are read in the order alert_option,
\* email, slack, sms, xmpp.
getContactGroupInput(d, cidErr, validateErr) ==
    LET cg == contactGroupAlertOptionsToAPI(
                  [newContactGroup EXCEPT
                      !.Name = d.name,
                      !.External = [i \in 1..Len(d.slack) |->
                                      [Method |-> "slack",
                                       Info |-> d.slack[i].contact_group_fallback]]],
                  d.alert_option)
    IN  IF Len(d.alert_option) > 0 /\ AssertionPanics(contactAlertOptionAttr)
        THEN [err |-> "interface conversion", panic |-> TRUE, obj |-> newContactGroup]
        ELSE IF Len(d.email) > 0 /\ AssertionPanics(contactEmailAttr)
        THEN [err |-> "interface conversion", panic |-> TRUE, obj |-> cg]
        ELSE IF Len(d.slack) > 0 /\ AssertionPanics(contactSlackAttr)
        THEN [err |-> "interface conversion", panic |-> TRUE, obj |-> cg]
        ELSE IF cidErr /\ \E i \in 1..Len(d.slack) : d.slack[i].contact_group_fallback # ""
        THEN [err |-> "error reading contact group CID", panic |-> FALSE, obj |-> cg]
        ELSE IF Len(d.sms) > 0 /\ AssertionPanics(contactSMSAttr)
        THEN [err |-> "interface conversion", panic |-> TRUE, obj |-> cg]
        ELSE IF Len(d.xmpp) > 0 /\ AssertionPanics(contactXMPPAttr)
        THEN [err |-> "interface conversion", panic |-> TRUE, obj |-> cg]
        ELSE IF validateErr
        THEN [err |-> "invalid contact group", panic |-> FALSE, obj |-> cg]
        ELSE [err |-> "", panic |-> FALSE, obj |-> cg]

-----------------------------------------------------------------------------
(* Configurations and API objects the mappers are run on.  Every value is   *)
(* one the schema validators accept.                                        *)

UrlPlain == <<"h", "t", "t", "p", ":", "/", "/", "h", "/">>
UrlWithPort == <<"h", "t", "t", "p", ":", "/", "/", "h", ":", "8", "0", "/">>
StrGET == <<"G", "E", "T">>
StrHEAD == <<"H", "E", "A", "D">>
Str11 == <<"1", ".", "1">>
Str20 == <<"2", ".", "0">>
StrCode200 == <<"^", "2", "0", "0", "$">>
StrCode2xx == <<"^", "2">>
StrBasic == <<"B", "a", "s", "i", "c">>
StrV == <<"v">>
HdrAccept == <<"A", "c", "c", "e", "p", "t">>
HdrX == <<"X">>
KeyUnknownShort == <<"b", "o", "g", "u", "s">>
KeyUnknownSeven == <<"t", "i", "m", "e", "o", "u", "t">>
KeyUnknownLong == <<"u", "n", "k", "n", "o", "w", "n", "_", "k", "e", "y">>
HostOther == <<"t", ".", "e", "x", "a", "m", "p", "l", "e">>

HTTPHeaderMaps ==
    { EmptyMap,
      [h \in {HdrAccept} |-> StrV],
      [h \in {HdrAccept, HdrX} |-> StrV] }

\* `http` blocks: every attribute is present, an unset one as "" (or 0)
HTTPBlocks ==
    { [ auth_method |-> am, auth_password |-> IF au = <<>> THEN <<>> ELSE StrV,
        auth_user |-> au, body_regexp |-> misc, ca_chain |-> misc,
        certificate_file |-> misc, ciphers |-> misc, code |-> code,
        extract |-> misc, headers |-> hdrs, key_file |-> misc, method |-> method,
        payload |-> payload, read_limit |-> rl, url |-> url,
        version |-> version, redirects |-> redirects ] :
        am \in {<<>>, StrBasic}, au \in {<<>>, StrV}, misc \in {<<>>, StrV},
        code \in {StrCode200, StrCode2xx}, hdrs \in HTTPHeaderMaps,
        method \in {StrGET, StrHEAD}, payload \in {<<>>, StrV},
        rl \in {0, 1024}, url \in {UrlPlain, UrlWithPort},
        version \in {Str11, Str20}, redirects \in {<<"0">>, <<"3">>} }

\* the `http` block with the schema defaults and the given url
HTTPBlockOf(url) ==
    [ auth_method |-> <<>>, auth_password |-> <<>>, auth_user |-> <<>>,
      body_regexp |-> <<>>, ca_chain |-> <<>>, certificate_file |-> <<>>,
      ciphers |-> <<>>, code |-> StrCode200, extract |-> <<>>, headers |-> EmptyMap,
      key_file |-> <<>>, method |-> StrGET, payload |-> <<>>, read_limit |-> 0,
      url |-> url, version |-> Str11, redirects |-> <<"0">> ]

MetricBlock == [name |-> "maximum", type |-> "numeric", active |-> TRUE]
MetricFilterBlock == [type |-> "allow", regex |-> ".*", tag_query |-> "", comment |-> ""]

\* period and timeout of a check, in milliseconds
PeriodValues == {Unset, 30000, 30500, 60000, 300000}
TimeoutValues == {Unset, 0, 30000, 30200, 90000}

TCPBlock == [host |-> HostOther, port |-> <<"2", "2">>]
CloudWatchBlock == [url |-> UrlPlain]

\* check configurations with any combination of the three type blocks
CheckTypeConfigs ==
    [ active : {TRUE}, period : {Unset, 30000, 60000, 60500, 120000, 300000},
      timeout : {Unset, 30000},
      metric : {<<MetricBlock>>}, metric_filter : {<<>>}, target : {<<>>},
      http : {<<>>, <<HTTPBlockOf(UrlWithPort)>>},
      tcp : {<<>>, <<TCPBlock>>}, cloudwatch : {<<>>, <<CloudWatchBlock>>} ]

CheckConfigs ==
    [ active : BOOLEAN, period : PeriodValues, timeout : TimeoutValues,
      metric : SeqUpTo({MetricBlock}, MaxMetrics),
      metric_filter : SeqUpTo({MetricFilterBlock}, MaxFilters),
      target : {<<>>, HostOther},
      http : {<<>>, <<HTTPBlockOf(UrlPlain)>>, <<HTTPBlockOf(UrlWithPort)>>},
      tcp : {<<>>}, cloudwatch : {<<>>} ]
    \cup CheckTypeConfigs

\* API config maps of an http check, as the vendor can return them
HTTPAPIKeys ==
    { configURL, configMethod, configReadLimit, configHeaderPrefix \o HdrX,
      configReverseSecretKey, configSubmissionURL, configPort,
      KeyUnknownShort, KeyUnknownSeven, KeyUnknownLong }

HTTPAPIValue(k) ==
    IF k = configURL THEN UrlPlain
    ELSE IF k = configMethod THEN StrGET
    ELSE IF k = configReadLimit THEN <<"0">>
    ELSE StrV

HTTPAPIConfigs == {[k \in ks |-> HTTPAPIValue(k)] : ks \in SUBSET HTTPAPIKeys}

GraphMetricBlocks ==
    { [ active |-> TRUE, axis |-> axis, caql |-> caql, search |-> search,
        check |-> check, metric_name |-> name,
        function |-> tf[2], metric_type |-> tf[1] ] :
        axis \in {"left", "right"}, caql \in {<<>>, <<"q">>}, search \in {<<>>, <<"s">>},
        check \in {<<>>, configCheckPrefix \o <<"/", "7">>, configCheckPrefix \o <<"/", "0">>},
        name \in {<<>>, <<"m">>, <<" ">>},
        tf \in {<<"numeric", "">>, <<"numeric", "gauge">>, <<"text", "">>, <<"text", "gauge">>} }

GraphMetricBlocksSmall ==
    { [ active |-> TRUE, axis |-> "left", caql |-> <<>>, search |-> <<>>,
        check |-> configCheckPrefix \o <<"/", "7">>, metric_name |-> <<"m">>,
        function |-> "gauge", metric_type |-> "numeric" ],
      [ active |-> TRUE, axis |-> "left", caql |-> <<"q">>, search |-> <<>>,
        check |-> <<>>, metric_name |-> <<>>,
        function |-> "", metric_type |-> "numeric" ] }

GraphConfigs ==
    {[metric |-> l] : l \in OneFull(GraphMetricBlocks, GraphMetricBlocksSmall, MaxGraphMetrics)}

ValueNone ==
    [ absent |-> Unset, changed |-> "", contains |-> "", match |-> "", not_match |-> "",
      min_value |-> "", not_contain |-> "", max_value |-> "", eq_value |-> "",
      neq_value |-> "", over |-> <<>> ]

RuleSetValueCriteria ==
    { ValueNone,
      [ValueNone EXCEPT !.absent = 300],
      [ValueNone EXCEPT !.changed = "true"],
      [ValueNone EXCEPT !.changed = "false"],
      [ValueNone EXCEPT !.contains = "x"],
      [ValueNone EXCEPT !.match = "x"],
      [ValueNone EXCEPT !.not_match = "x"],
      [ValueNone EXCEPT !.not_contain = "x"],
      [ValueNone EXCEPT !.min_value = "1"],
      [ValueNone EXCEPT !.max_value = "1"],
      [ValueNone EXCEPT !.eq_value = "1"],
      [ValueNone EXCEPT !.neq_value = "1"],
      [ValueNone EXCEPT !.contains = "x", !.min_value = "1"] }

RuleSetOverLists ==
    { <<>>,
      <<[last |-> 300, atleast |-> 60, using |-> "average"]>>,
      <<[last |-> 60, atleast |-> 300, using |-> "average"]>>,
      <<[last |-> 0, atleast |-> 60, using |-> "average"]>> }

RuleSetThenLists ==
    { <<>>,
      <<[after |-> 0, severity |-> 1, notify |-> <<>>]>>,
      <<[after |-> 120, severity |-> 0, notify |-> <<"/contact_group/1">>]>>,
      <<[after |-> 90, severity |-> 2, notify |-> <<"/contact_group/1", "/contact_group/2">>]>>,
      <<[after |-> 0, severity |-> 1, notify |-> <<"/contact_group/2">>]>> }

RuleSetIfBlocks ==
    { [then |-> th, value |-> IF hasValue THEN <<[v EXCEPT !.over = ov]>> ELSE <<>>] :
        th \in RuleSetThenLists, v \in RuleSetValueCriteria, ov \in RuleSetOverLists,
        hasValue \in BOOLEAN }

RuleSetIfBlocksSmall ==
    { [ then |-> <<[after |-> 0, severity |-> 1, notify |-> <<>>]>>,
        value |-> <<[ValueNone EXCEPT !.min_value = "1"]>> ],
      [ then |-> <<[after |-> 0, severity |-> 1, notify |-> <<>>]>>,
        value |-> <<[ValueNone EXCEPT !.contains = "x"]>> ] }

RuleSetConfigs ==
    [ metric_type : {ruleSetMetricTypeNumeric, ruleSetMetricTypeText},
      metric_name : {"", "cpu"}, metric_pattern : {"", "^cpu"},
      if : OneFull(RuleSetIfBlocks, RuleSetIfBlocksSmall, MaxRules) ]

\* API rules and rule sets handed to Validate directly
APIRules ==
    { [newRule EXCEPT !.Criteria = c, !.WindowingFunction = f,
                      !.WindowingDuration = wd, !.WindowingMinDuration = wm] :
        c \in {"", apiRuleSetMinValue, apiRuleSetContains, apiRuleSetAbsent},
        f \in {Nil, Ptr("average")}, wd \in 0..MaxWindow, wm \in 0..MaxWindow }

APIRulesSmall ==
    { [newRule EXCEPT !.Criteria = apiRuleSetAbsent],
      [newRule EXCEPT !.Criteria = apiRuleSetMinValue] }

APIRuleSets ==
    { [newRuleSet EXCEPT !.MetricType = mt, !.MetricName = mn, !.MetricPattern = mp,
                         !.Rules = rules] :
        mt \in {ruleSetMetricTypeNumeric, ruleSetMetricTypeText},
        mn \in {"", "cpu"}, mp \in {"", "^cpu"},
        rules \in OneFull(APIRules, APIRulesSmall, MaxRules) }

\* fmt.Sprintf("%ds", n)
SecondsString(n) == Itoa(n) \o <<"s">>

\* time.Duration.String() of a whole number of seconds: "0s", "59s", "1m0s",
\* "1m30s", "1h0m0s"
DurationString(secs) ==
    IF secs < 60 THEN Itoa(secs) \o <<"s">>
    ELSE IF secs < 3600
    THEN Itoa(secs \div 60) \o <<"m">> \o Itoa(secs % 60) \o <<"s">>
    ELSE Itoa(secs \div 3600) \o <<"h">> \o Itoa((secs % 3600) \div 60) \o <<"m">>
         \o Itoa(secs % 60) \o <<"s">>

\* checkRead: the period and timeout attributes stored for a fetched check
\* whose timeout is a whole number of seconds (c.Timeout is in milliseconds
\* here); the timeout goes through time.ParseDuration and Duration.String()
checkDurationsToState(c) ==
    [ period |-> SecondsString(c.Period),
      timeout |-> DurationString(c.Timeout \div 1000) ]

\* contactGroupAlertOptionsToState: one entry per severity that has a
\* reminder or an escalation, nil when the API lists are not of length 5
contactGroupAlertOptionsToState(cg) ==
    IF Len(cg.Reminders) # NumSeverityLevels \/ Len(cg.Escalations) # NumSeverityLevels
    THEN <<>>
    ELSE SelectSeq(
           [i \in 1..NumSeverityLevels |->
              [ severity |-> i,
                reminder |-> IF cg.Reminders[i] # 0
                             THEN Ptr(SecondsString(cg.Reminders[i])) ELSE Nil,
                escalate_after |-> IF cg.Escalations[i] # Nil
                                   THEN Ptr(SecondsString(cg.Escalations[i][1].After))
                                   ELSE Nil,
                escalate_to |-> IF cg.Escalations[i] # Nil
                                THEN Ptr(cg.Escalations[i][1].ContactGroupCID) ELSE Nil ]],
           LAMBDA o : o.reminder # Nil \/ o.escalate_after # Nil)

\* contactGroupRead: the duration attributes stored for a fetched contact group
contactGroupDurationsToState(cg) ==
    [ aggregation_window |-> SecondsString(cg.AggregationWindow),
      alert_option |-> contactGroupAlertOptionsToState(cg) ]

\* checks and contact groups as the vendor API can return them
FetchedChecks ==
    { [newCheck EXCEPT !.CID = "/check_bundle/1", !.Period = p, !.Timeout = t * 1000] :
        p \in {30, 60, 300}, t \in {0, 10, 59, 60, 90, 300, 3600} }

FetchedEscalations ==
    { Nil, Ptr([After |-> 90, ContactGroupCID |-> "/contact_group/2"]),
      Ptr([After |-> 3600, ContactGroupCID |-> "/contact_group/2"]) }

FetchedContactGroups ==
    { [CID |-> "/contact_group/1", AggregationWindow |-> w,
       Reminders |-> [i \in 1..NumSeverityLevels |-> IF i \in rem THEN 300 ELSE 0],
       Escalations |-> [i \in 1..NumSeverityLevels |->
                          IF i = 1 THEN e1 ELSE IF i = NumSeverityLevels THEN e5 ELSE Nil]] :
        w \in {0, 60, 300}, rem \in SUBSET (1..NumSeverityLevels),
        e1 \in FetchedEscalations, e5 \in FetchedEscalations }

\* graphs as the vendor API can return them: the axes of the datapoints and
\* of the metric clusters
FetchedAxes == {"l", "r", "", "x"}

FetchedGraphs ==
    [ Datapoints : SeqUpTo([Axis : FetchedAxes], MaxGraphMetrics),
      MetricClusters : SeqUpTo([Axis : FetchedAxes], MaxGraphMetrics) ]

\* the Derive values of the datapoints of a graph the vendor API can return
FetchedDerives ==
    { DeriveBool(FALSE), DeriveBool(TRUE), DeriveString("gauge"), DeriveString(""),
      DeriveNil, DeriveNumber(1) }

FetchedDatapoints == SeqUpTo([Derive : FetchedDerives], MaxGraphMetrics)

\* rule sets as the vendor API can return them to ruleSetRead
FetchedRules ==
    { [newRule EXCEPT !.Criteria = c, !.Value = StringValue("1"),
                      !.Severity = sev, !.Wait = w] :
        c \in {apiRuleSetMinValue, apiRuleSetChanged, "unknown"},
        sev \in {0, 1, 2}, w \in {0, 5} }

FetchedRulesSmall ==
    { [newRule EXCEPT !.Criteria = apiRuleSetMinValue, !.Value = StringValue("1"),
                      !.Severity = 0],
      [newRule EXCEPT !.Criteria = apiRuleSetMinValue, !.Value = StringValue("1"),
                      !.Severity = 2] }

FetchedRuleSetContactGroups ==
    { newRuleSet.ContactGroups,
      [newRuleSet.ContactGroups EXCEPT ![2] = <<"/contact_group/2", "/contact_group/1">>],
      (1 :> <<"/contact_group/1">>),
      (0 :> <<"/contact_group/1">>) @@ newRuleSet.ContactGroups }

FetchedRuleSets ==
    { [newRuleSet EXCEPT !.CID = "/rule_set/1", !.MetricType = ruleSetMetricTypeNumeric,
                         !.MetricName = "cpu", !.Rules = rules, !.ContactGroups = cg] :
        rules \in OneFull(FetchedRules, FetchedRulesSmall, MaxRules),
        cg \in FetchedRuleSetContactGroups }

\* contact group configurations: the alert_option set in the order of
\* Set.List(), durations in whole seconds (Unset: the attribute is not
\* written), and the blocks of the notification methods
MaxAlertOptions == 2

AlertOptions ==
    [ severity : {1, 2, NumSeverityLevels},
      reminder : {Unset, 0, 300},
      escalate_after : {Unset, 600},
      escalate_to : {"", "/contact_group/2"} ]

AlertOptionLists ==
    { l \in SeqUpTo(AlertOptions, MaxAlertOptions) :
        \A i, j \in 1..Len(l) : i # j => l[i] # l[j] }

ContactGroupConfigs ==
    [ name : {"ops"}, alert_option : AlertOptionLists,
      email : {<<>>}, sms : {<<>>}, xmpp : {<<>>}, slack : {<<>>} ]
    \cup
    [ name : {"ops"}, alert_option : {<<>>},
      email : {<<>>, <<[address |-> "a@example.com", user |-> ""]>>},
      sms : {<<>>, <<[address |-> "8005550100", user |-> ""]>>},
      xmpp : {<<>>, <<[address |-> "a@example.com", user |-> ""]>>},
      slack : {<<>>, <<[channel |-> "#ops", contact_group_fallback |-> ""]>>} ]

-----------------------------------------------------------------------------
(* The mappers run on their own: the initial state holds one input, and the *)
(* action of the mapper that takes this kind of input applies it.           *)

InitInput(k, inputs) ==
    /\ kind = k
    /\ arg \in inputs
    /\ op = "input"
    /\ res = <<>>
    /\ tfid = ""
    /\ calls = <<>>
    /\ diags = "none"

Init ==
    \/ InitInput("CheckConfig", CheckConfigs)
    \/ InitInput("HTTPAPIConfig", HTTPAPIConfigs)
    \/ InitInput("HTTPBlock", HTTPBlocks)
    \/ InitInput("GraphConfig", GraphConfigs)
    \/ InitInput("RuleSetConfig", RuleSetConfigs)
    \/ InitInput("APIRuleSet", APIRuleSets)
    \/ InitInput("FetchedRuleSet", FetchedRuleSets)
    \/ InitInput("FetchedCheck", FetchedChecks)
    \/ InitInput("FetchedGraph", FetchedGraphs)
    \/ InitInput("FetchedContactGroup", FetchedContactGroups)
    \/ InitInput("ContactGroupConfig", ContactGroupConfigs)
    \/ InitInput("FetchedDatapoints", FetchedDatapoints)

RunCheckParseConfig ==
    /\ op = "input" /\ kind = "CheckConfig"
    /\ op' = "CheckParseConfig"
    /\ \E order \in CheckTypeOrders : res' = CheckParseConfig(arg, order)
    /\ UNCHANGED <<arg, kind, tfid, calls, diags>>

RunCheckAPIToStateHTTP ==
    /\ op = "input" /\ kind = "HTTPAPIConfig"
    /\ op' = "checkAPIToStateHTTP"
    /\ res' = checkAPIToStateHTTP([newCheck EXCEPT !.Type = apiCheckTypeHTTP,
                                                   !.Config = arg])
    /\ UNCHANGED <<arg, kind, tfid, calls, diags>>

\* an `http` block written by checkConfigToAPIHTTP and read back by
\* checkAPIToStateHTTP
RunHTTPRoundTrip ==
    /\ op = "input" /\ kind = "HTTPBlock"
    /\ op' = "HTTPRoundTrip"
    /\ res' = checkAPIToStateHTTP(checkConfigToAPIHTTP(newCheck, <<arg>>).c)
    /\ UNCHANGED <<arg, kind, tfid, calls, diags>>

RunGraphParseConfig ==
    /\ op = "input" /\ kind = "GraphConfig"
    /\ op' = "GraphParseConfig"
    /\ res' = GraphParseConfig(arg)
    /\ UNCHANGED <<arg, kind, tfid, calls, diags>>

RunRuleSetParseConfig ==
    /\ op = "input" /\ kind = "RuleSetConfig"
    /\ op' = "RuleSetParseConfig"
    /\ res' = RuleSetParseConfig(arg)
    /\ UNCHANGED <<arg, kind, tfid, calls, diags>>

RunRuleSetValidate ==
    /\ op = "input" /\ kind = "APIRuleSet"
    /\ op' = "RuleSetValidate"
    /\ res' = [err |-> RuleSetValidate(arg)]
    /\ UNCHANGED <<arg, kind, tfid, calls, diags>>

\* a rule set configuration parsed by ParseConfig and, when it is accepted,
\* the submitted rule set read back by ruleSetRead
RunRuleSetRoundTrip ==
    /\ op = "input" /\ kind = "RuleSetConfig"
    /\ op' = "RuleSetRoundTrip"
    /\ LET readBack(p) ==
               [err |-> p.err, panic |-> p.panic, rs |-> p.rs,
                read |-> IF p.err = "" THEN ruleSetAPIToState(p.rs)
                         ELSE [err |-> "not submitted", if |-> <<>>]]
       IN  res' = readBack(RuleSetParseConfig(arg))
    /\ UNCHANGED <<arg, kind, tfid, calls, diags>>

RunRuleSetRead ==
    /\ op = "input" /\ kind = "FetchedRuleSet"
    /\ op' = "ruleSetRead"
    /\ res' = ruleSetAPIToState(arg)
    /\ UNCHANGED <<arg, kind, tfid, calls, diags>>

RunCheckReadDurations ==
    /\ op = "input" /\ kind = "FetchedCheck"
    /\ op' = "checkReadDurations"
    /\ res' = checkDurationsToState(arg)
    /\ UNCHANGED <<arg, kind, tfid, calls, diags>>

RunContactGroupReadDurations ==
    /\ op = "input" /\ kind = "FetchedContactGroup"
    /\ op' = "contactGroupReadDurations"
    /\ res' = contactGroupDurationsToState(arg)
    /\ UNCHANGED <<arg, kind, tfid, calls, diags>>

RunGraphReadAxes ==
    /\ op = "input" /\ kind = "FetchedGraph"
    /\ op' = "graphReadAxes"
    /\ res' = graphAxesToState(arg)
    /\ UNCHANGED <<arg, kind, tfid, calls, diags>>

\* a graph configuration parsed by ParseConfig and, when it is accepted, the
\* axes of the submitted datapoints read back by graphRead
RunGraphAxisRoundTrip ==
    /\ op = "input" /\ kind = "GraphConfig"
    /\ op' = "GraphAxisRoundTrip"
    /\ LET readBack(p) ==
               [err |-> p.err, g |-> p.g,
                read |-> IF p.err = ""
                         THEN graphAxesToState([Datapoints |-> p.g.Datapoints,
                                                MetricClusters |-> <<>>])
                         ELSE [err |-> "not submitted", metric |-> <<>>,
                               metric_cluster |-> <<>>],
                derive |-> graphDerivesToState(p.g.Datapoints)]
       IN  res' = readBack(GraphParseConfig(arg))
    /\ UNCHANGED <<arg, kind, tfid, calls, diags>>

RunGraphReadDerive ==
    /\ op = "input" /\ kind = "FetchedDatapoints"
    /\ op' = "graphReadDerive"
    /\ res' = graphDerivesToState(arg)
    /\ UNCHANGED <<arg, kind, tfid, calls, diags>>

\* a contact group configuration read by getContactGroupInput and, when it
\* is accepted, the alert options of the submitted contact group read back
\* by contactGroupAlertOptionsToState
RunContactGroupRoundTrip ==
    /\ op = "input" /\ kind = "ContactGroupConfig"
    /\ op' = "ContactGroupRoundTrip"
    /\ LET readBack(p) ==
               [err |-> p.err, panic |-> p.panic, obj |-> p.obj,
                read |-> IF p.err = "" THEN contactGroupAlertOptionsToState(p.obj)
                         ELSE <<>>]
       IN  res' = readBack(getContactGroupInput(arg, FALSE, FALSE))
    /\ UNCHANGED <<arg, kind, tfid, calls, diags>>

Next ==
    \/ RunCheckParseConfig
    \/ RunCheckAPIToStateHTTP
    \/ RunHTTPRoundTrip
    \/ RunGraphParseConfig
    \/ RunRuleSetParseConfig
    \/ RunRuleSetValidate
    \/ RunRuleSetRoundTrip
    \/ RunRuleSetRead
    \/ RunCheckReadDurations
    \/ RunContactGroupReadDurations
    \/ RunGraphReadAxes
    \/ RunGraphAxisRoundTrip
    \/ RunContactGroupRoundTrip
    \/ RunGraphReadDerive

Spec == Init /\ [][Next]_vars

-----------------------------------------------------------------------------
(* The CRUD entry points of one resource instance.  The vendor API answers  *)
(* every call with an error or a result of its choosing.                    *)

\* the CIDs the vendor API assigns
VendorCIDs == {"/cid/1", "/cid/2"}

\* what a fetch can answer: an error, an object with an empty CID, the object
\* asked for, or an object that the state mapper rejects
FetchOutcomes == {"error", "absent", "found", "unmappable"}

\* one vendor call, SetId call or Set call: cid is the CID passed (the CID
\* returned, for Create; the name of the first attribute stored, for the Set
\* calls of an entry point), ok whether the call succeeded
Event(call, cid, ok) == [call |-> call, cid |-> cid, ok |-> ok]

\* the first state attribute each Read stores, and the attribute ruleSetDelete
\* stores
checkActiveAttr == "active"
graphDescriptionAttr == "description"
contactAggregationWindowAttr == "aggregation_window"
ruleSetIDAttr == "rule_set_id"

\* what the fetch of an Exists function can answer: "notfound" is an error
\* whose text holds the 404 string of the API client
ExistsOutcomes == {"error", "notfound", "absent", "found"}

\* the configurations of the resource instance
CheckResourceConfigs ==
    {d \in CheckConfigs : /\ d.active /\ d.target = <<>> /\ d.period = 60000
                          /\ d.timeout \in {30000, 90000}
                          /\ d.http = <<HTTPBlockOf(UrlPlain)>>
                          /\ d.tcp = <<>> /\ d.cloudwatch = <<>>}

GraphResourceConfigs ==
    {d \in GraphConfigs : /\ Len(d.metric) = 1 /\ d.metric[1].axis = "left"}

RuleSetResourceConfigs ==
    {d \in RuleSetConfigs : /\ Len(d.if) = 1 /\ d.metric_name = "cpu"
                            /\ Len(d.if[1].then) = 1 /\ d.if[1].then[1].severity = 1
                            /\ \A i \in 1..Len(d.if[1].value) : d.if[1].value[i].over = <<>>}

ContactGroupResourceConfigs ==
    [ name : {"ops"}, alert_option : {<<>>}, sms : {<<>>}, xmpp : {<<>>},
      email : {<<>>, <<[address |-> "a@example.com", user |-> ""]>>},
      slack : {<<>>, <<[contact_group_fallback |-> ""]>>,
               <<[contact_group_fallback |-> "/contact_group/1"]>>} ]

InitResource(k, configs) ==
    /\ kind = k
    /\ arg \in configs
    /\ op = "input"
    /\ res = <<>>
    /\ tfid \in {""} \cup VendorCIDs
    /\ calls = <<>>
    /\ diags = "none"

InitCRUD ==
    \/ InitResource("check", CheckResourceConfigs)
    \/ InitResource("graph", GraphResourceConfigs)
    \/ InitResource("contact_group", ContactGroupResourceConfigs)
    \/ InitResource("rule_set", RuleSetResourceConfigs)

\* an entry point returns: parse is what ParseConfig returned, r what the
\* entry point did after it
Return(name, parse, r) ==
    /\ op' = name
    /\ res' = parse
    /\ calls' = r.calls
    /\ tfid' = r.tfid
    /\ diags' = r.diags
    /\ UNCHANGED <<arg, kind>>

\* an entry point that clears the ID when ParseConfig fails
ParseFailedClearsId(parse) ==
    [calls |-> <<[call |-> "SetId", cid |-> "", ok |-> TRUE]>>, tfid |-> "",
     diags |-> IF parse.panic THEN "panic" ELSE "error"]

\* an entry point stops at the error or panic of ParseConfig
ParseFailed(parse) ==
    [calls |-> <<>>, tfid |-> tfid, diags |-> IF parse.panic THEN "panic" ELSE "error"]

\* checkRead with d.Id() = id and f the answer to the fetch
checkReadSteps(id, f) ==
    IF f = "error"
    THEN [calls |-> <<Event("Fetch", id, FALSE)>>, tfid |-> id, diags |-> "error"]
    ELSE IF f = "absent"
    THEN [calls |-> <<Event("Fetch", id, TRUE), Event("SetId", "", TRUE)>>,
          tfid |-> "", diags |-> "warning"]
    ELSE [calls |-> <<Event("Fetch", id, TRUE), Event("SetId", id, TRUE),
                      Event("Set", checkActiveAttr, TRUE)>>,
          tfid |-> id, diags |-> IF f = "unmappable" THEN "error" ELSE "ok"]

\* graphRead: d.SetId(g.CID) whatever the CID of the fetched graph; the
\* attributes are stored unless a datapoint cannot be mapped
graphReadSteps(id, f) ==
    IF f = "error"
    THEN [calls |-> <<Event("Fetch", id, FALSE)>>, tfid |-> id, diags |-> "error"]
    ELSE LET cid == IF f = "absent" THEN "" ELSE id
         IN  [calls |-> <<Event("Fetch", id, TRUE), Event("SetId", cid, TRUE)>> \o
                        (IF f = "unmappable" THEN <<>>
                         ELSE <<Event("Set", graphDescriptionAttr, TRUE)>>),
              tfid |-> cid, diags |-> IF f = "unmappable" THEN "error" ELSE "ok"]

\* contactGroupRead: returns nil when the fetched contact group has no CID
contactGroupReadSteps(id, f) ==
    IF f = "error"
    THEN [calls |-> <<Event("Fetch", id, FALSE)>>, tfid |-> id, diags |-> "error"]
    ELSE IF f = "absent"
    THEN [calls |-> <<Event("Fetch", id, TRUE)>>, tfid |-> id, diags |-> "ok"]
    ELSE [calls |-> <<Event("Fetch", id, TRUE), Event("SetId", id, TRUE)>> \o
                    (IF f = "unmappable" THEN <<>>
                     ELSE <<Event("Set", contactAggregationWindowAttr, TRUE)>>),
          tfid |-> id, diags |-> IF f = "unmappable" THEN "error" ELSE "ok"]

\* ruleSetRead
ruleSetReadSteps(id, f) ==
    IF f = "error"
    THEN [calls |-> <<Event("Fetch", id, FALSE)>>, tfid |-> id, diags |-> "error"]
    ELSE IF f = "absent"
    THEN [calls |-> <<Event("Fetch", id, TRUE), Event("SetId", "", TRUE)>>,
          tfid |-> "", diags |-> "warning"]
    ELSE [calls |-> <<Event("Fetch", id, TRUE), Event("SetId", id, TRUE),
                      Event("Set", ruleSetIDAttr, TRUE)>>,
          tfid |-> id, diags |-> IF f = "unmappable" THEN "error" ELSE "ok"]

\* the vendor create call failed: the entry point returns the error
CreateFailed ==
    [calls |-> <<Event("Create", "", FALSE)>>, tfid |-> tfid, diags |-> "error"]

\* a create entry point that reads back without having set the ID
CreatedWithoutSetId(cid, r) ==
    [calls |-> <<Event("Create", cid, TRUE)>> \o r.calls, tfid |-> r.tfid, diags |-> r.diags]

\* the vendor create call returned cid: SetId(cid), then the read-back r
Created(cid, r) ==
    [calls |-> <<Event("Create", cid, TRUE), Event("SetId", cid, TRUE)>> \o r.calls,
     tfid |-> r.tfid, diags |-> r.diags]

\* an entry point that issues the vendor update call again after it failed
UpdateRetried ==
    [calls |-> <<Event("Update", tfid, FALSE), Event("Update", tfid, FALSE)>>,
     tfid |-> tfid, diags |-> "error"]

\* the vendor update call failed: the entry point returns the error
UpdateFailed ==
    [calls |-> <<Event("Update", tfid, FALSE)>>, tfid |-> tfid, diags |-> "error"]

\* the vendor update call was issued with the CID d.Id(), then the read-back r
Updated(ok, r) ==
    [calls |-> <<Event("Update", tfid, ok)>> \o r.calls, tfid |-> r.tfid, diags |-> r.diags]

\* the parse result of a check or graph configuration as [err, panic, obj]
CheckParsed(d, order) ==
    LET parsed(p) == [err |-> p.err, panic |-> FALSE, obj |-> p.c]
    IN  parsed(CheckParseConfig(d, order))

GraphParsed(d) ==
    LET parsed(p) == [err |-> p.err, panic |-> FALSE, obj |-> p.g]
    IN  parsed(GraphParseConfig(d))

RuleSetParsed(d) ==
    LET parsed(p) == [err |-> p.err, panic |-> p.panic, obj |-> p.rs]
    IN  parsed(RuleSetParseConfig(d))

\* the vendor delete call failed, or it succeeded and the ID is cleared
Deleted(ok) ==
    IF ok
    THEN [calls |-> <<Event("Delete", tfid, TRUE), Event("SetId", "", TRUE)>>,
          tfid |-> "", diags |-> "ok"]
    ELSE [calls |-> <<Event("Delete", tfid, FALSE)>>, tfid |-> tfid, diags |-> "error"]

\* ruleSetDelete: as Deleted, then d.Set(ruleSetIDAttr, "")
ruleSetDeleted(ok) ==
    IF ok
    THEN [calls |-> <<Event("Delete", tfid, TRUE), Event("SetId", "", TRUE),
                      Event("Set", ruleSetIDAttr, TRUE)>>,
          tfid |-> "", diags |-> "ok"]
    ELSE [calls |-> <<Event("Delete", tfid, FALSE)>>, tfid |-> tfid, diags |-> "error"]

\* graphExists and contactGroupExists: an error is returned unless it is a
\* 404; a 404 and an object without CID say that the resource does not
\* exist, and the SDK then removes it from the state without calling Read
ExistsSteps(f) ==
    IF f = "error"
    THEN [calls |-> <<Event("Fetch", tfid, FALSE)>>, tfid |-> tfid, diags |-> "error"]
    ELSE IF f = "notfound"
    THEN [calls |-> <<Event("Fetch", tfid, FALSE)>>, tfid |-> "", diags |-> "ok"]
    ELSE IF f = "absent"
    THEN [calls |-> <<Event("Fetch", tfid, TRUE)>>, tfid |-> "", diags |-> "ok"]
    ELSE [calls |-> <<Event("Fetch", tfid, TRUE)>>, tfid |-> tfid, diags |-> "ok"]

checkCreate ==
    /\ kind = "check" /\ tfid = ""
    /\ LET steps(parse) ==
           IF parse.err # "" THEN Return("checkCreate", parse, ParseFailed(parse))
           ELSE \/ Return("checkCreate", parse, CreateFailed)
                \/ \E cid \in VendorCIDs, f \in FetchOutcomes :
                      Return("checkCreate", parse, Created(cid, checkReadSteps(cid, f)))
       IN  \E order \in CheckTypeOrders : steps(CheckParsed(arg, order))

checkRead ==
    /\ kind = "check" /\ tfid # ""
    /\ \E f \in FetchOutcomes : Return("checkRead", [fetched |-> f], checkReadSteps(tfid, f))

checkUpdate ==
    /\ kind = "check" /\ tfid # ""
    /\ LET steps(parse) ==
           IF parse.err # "" THEN Return("checkUpdate", parse, ParseFailed(parse))
           ELSE \/ Return("checkUpdate", parse, UpdateFailed)
                \/ \E f \in FetchOutcomes :
                      Return("checkUpdate", parse, Updated(TRUE, checkReadSteps(tfid, f)))
       IN  \E order \in CheckTypeOrders : steps(CheckParsed(arg, order))

checkDelete ==
    /\ kind = "check" /\ tfid # ""
    /\ \E ok \in BOOLEAN : Return("checkDelete", <<>>, Deleted(ok))

graphCreate ==
    /\ kind = "graph" /\ tfid = ""
    /\ LET steps(parse) ==
           IF parse.err # "" THEN Return("graphCreate", parse, ParseFailed(parse))
           ELSE \/ Return("graphCreate", parse, CreateFailed)
                \/ \E cid \in VendorCIDs, f \in FetchOutcomes :
                      Return("graphCreate", parse, Created(cid, graphReadSteps(cid, f)))
       IN  steps(GraphParsed(arg))

graphRead ==
    /\ kind = "graph" /\ tfid # ""
    /\ \E f \in FetchOutcomes : Return("graphRead", [fetched |-> f], graphReadSteps(tfid, f))

graphUpdate ==
    /\ kind = "graph" /\ tfid # ""
    /\ LET steps(parse) ==
           IF parse.err # "" THEN Return("graphUpdate", parse, ParseFailed(parse))
           ELSE \/ Return("graphUpdate", parse, UpdateFailed)
                \/ \E f \in FetchOutcomes :
                      Return("graphUpdate", parse, Updated(TRUE, graphReadSteps(tfid, f)))
       IN  steps(GraphParsed(arg))

graphDelete ==
    /\ kind = "graph" /\ tfid # ""
    /\ \E ok \in BOOLEAN : Return("graphDelete", <<>>, Deleted(ok))

contactGroupCreate ==
    /\ kind = "contact_group" /\ tfid = ""
    /\ \E cidErr \in BOOLEAN, validateErr \in BOOLEAN :
          LET steps(parse) ==
                 IF parse.err # "" THEN Return("contactGroupCreate", parse, ParseFailed(parse))
                 ELSE \/ Return("contactGroupCreate", parse, CreateFailed)
                      \/ \E cid \in VendorCIDs, f \in FetchOutcomes :
                            Return("contactGroupCreate", parse, Created(cid, contactGroupReadSteps(cid, f)))
             IN  steps(getContactGroupInput(arg, cidErr, validateErr))

contactGroupRead ==
    /\ kind = "contact_group" /\ tfid # ""
    /\ \E f \in FetchOutcomes : Return("contactGroupRead", [fetched |-> f], contactGroupReadSteps(tfid, f))

contactGroupUpdate ==
    /\ kind = "contact_group" /\ tfid # ""
    /\ \E cidErr \in BOOLEAN, validateErr \in BOOLEAN :
          LET steps(parse) ==
                 IF parse.err # "" THEN Return("contactGroupUpdate", parse, ParseFailed(parse))
                 ELSE \/ Return("contactGroupUpdate", parse, UpdateFailed)
                      \/ \E f \in FetchOutcomes :
                            Return("contactGroupUpdate", parse, Updated(TRUE, contactGroupReadSteps(tfid, f)))
             IN  steps(getContactGroupInput(arg, cidErr, validateErr))

contactGroupDelete ==
    /\ kind = "contact_group" /\ tfid # ""
    /\ \E ok \in BOOLEAN : Return("contactGroupDelete", <<>>, Deleted(ok))

ruleSetCreate ==
    /\ kind = "rule_set" /\ tfid = ""
    /\ LET steps(parse) ==
           IF parse.err # "" THEN Return("ruleSetCreate", parse, ParseFailed(parse))
           ELSE \/ Return("ruleSetCreate", parse, CreateFailed)
                \/ \E cid \in VendorCIDs, f \in FetchOutcomes :
                      Return("ruleSetCreate", parse, Created(cid, ruleSetReadSteps(cid, f)))
       IN  steps(RuleSetParsed(arg))

ruleSetRead ==
    /\ kind = "rule_set" /\ tfid # ""
    /\ \E f \in FetchOutcomes : Return("ruleSetRead", [fetched |-> f], ruleSetReadSteps(tfid, f))

\* ruleSetUpdate drops the error of the vendor update call and reads back
ruleSetUpdate ==
    /\ kind = "rule_set" /\ tfid # ""
    /\ LET steps(parse) ==
           IF parse.err # "" THEN Return("ruleSetUpdate", parse, ParseFailed(parse))
           ELSE \E ok \in BOOLEAN, f \in FetchOutcomes :
                   Return("ruleSetUpdate", parse, Updated(ok, ruleSetReadSteps(tfid, f)))
       IN  steps(RuleSetParsed(arg))

\* ruleSetDelete also stores an empty rule_set_id after clearing the ID
ruleSetDelete ==
    /\ kind = "rule_set" /\ tfid # ""
    /\ \E ok \in BOOLEAN : Return("ruleSetDelete", <<>>, ruleSetDeleted(ok))

graphExists ==
    /\ kind = "graph" /\ tfid # ""
    /\ \E f \in ExistsOutcomes : Return("graphExists", [fetched |-> f], ExistsSteps(f))

contactGroupExists ==
    /\ kind = "contact_group" /\ tfid # ""
    /\ \E f \in ExistsOutcomes : Return("contactGroupExists", [fetched |-> f], ExistsSteps(f))

NextCRUD ==
    \/ checkCreate \/ checkRead \/ checkUpdate \/ checkDelete
    \/ graphCreate \/ graphRead \/ graphUpdate \/ graphDelete
    \/ contactGroupCreate \/ contactGroupRead \/ contactGroupUpdate \/ contactGroupDelete
    \/ ruleSetCreate \/ ruleSetRead \/ ruleSetUpdate \/ ruleSetDelete
    \/ graphExists \/ contactGroupExists

SpecCRUD == InitCRUD /\ [][NextCRUD]_vars

-----------------------------------------------------------------------------
(* Two entry points running at the same time on distinct resources, a check *)
(* and a rule set, as Terraform runs them in parallel.  Every variable is a  *)
(* function of the process here: op[p] is the position of process p in its  *)
(* handler, arg[p] its configuration together with the answers the vendor    *)
(* API will give it, res[p] the local variables of its handler, tfid[p] the  *)
(* ID of its resource.  The processes interleave between any two steps.      *)

Procs == {1, 2}

\* a handler that keeps its working object in one place shared by all
\* processes, as a package-level variable would be
SharedSlot(p) == 1

\* the local variables of the handler that process p runs: c := newCheck(),
\* rs := newRuleSet(), cid := d.Id() are locals of each invocation
Local(p) == p

ConcKind == (1 :> "check") @@ (2 :> "rule_set")

ConcConfigs(k) ==
    IF k = "check"
    THEN {d \in CheckResourceConfigs : Len(d.metric) = 1 /\ Len(d.metric_filter) = 0}
    ELSE {d \in RuleSetResourceConfigs :
             /\ d.metric_type = ruleSetMetricTypeNumeric /\ d.metric_pattern = ""
             /\ d.if[1] \in RuleSetIfBlocksSmall}

\* the invocations of process p: a Create on a new resource or a Read of an
\* existing one, with the answers of the vendor API to its create call ("":
\* an error) and to its fetch
ConcInvocations(p) ==
    [ d : ConcConfigs(ConcKind[p]), entry : {"Create"}, id0 : {""},
      create : {""} \cup VendorCIDs, fetch : FetchOutcomes ]
    \cup
    [ d : {CHOOSE d \in ConcConfigs(ConcKind[p]) : TRUE}, entry : {"Read"},
      id0 : VendorCIDs, create : {""}, fetch : FetchOutcomes ]

ParsedOf(k, d, order) ==
    IF k = "check" THEN CheckParsed(d, order) ELSE RuleSetParsed(d)

ReadStepsOf(k, id, f) ==
    IF k = "check" THEN checkReadSteps(id, f) ELSE ruleSetReadSteps(id, f)

InitConc ==
    /\ kind = ConcKind
    /\ arg \in [Procs -> UNION {ConcInvocations(p) : p \in Procs}]
    /\ \A p \in Procs : arg[p] \in ConcInvocations(p)
    /\ op = [p \in Procs |-> IF arg[p].entry = "Create" THEN "start" ELSE "reading"]
    /\ res = [p \in Procs |-> [err |-> "", cid |-> ""]]
    /\ tfid = [p \in Procs |-> arg[p].id0]
    /\ calls = [p \in Procs |-> <<>>]
    /\ diags = [p \in Procs |-> "none"]

\* the handler of process p returns
ConcReturn(p, d) ==
    /\ op' = [op EXCEPT ![p] = "done"]
    /\ diags' = [diags EXCEPT ![p] = d]

\* checkCreate / ruleSetCreate: ParseConfig fills the new object
ConcParse(p) ==
    /\ op[p] = "start"
    /\ \E order \in CheckTypeOrders :
          res' = [res EXCEPT ![Local(p)] =
                     [err |-> ParsedOf(kind[p], arg[p].d, order).err, cid |-> ""]]
    /\ op' = [op EXCEPT ![p] = "parsed"]
    /\ UNCHANGED <<arg, kind, tfid, calls, diags>>

\* the error of ParseConfig is returned; else the vendor create call is
\* issued and its error returned, or the CID it returns kept in the object
ConcCreate(p) ==
    /\ op[p] = "parsed"
    /\ IF res[Local(p)].err # ""
       THEN /\ ConcReturn(p, "error")
            /\ UNCHANGED <<arg, kind, res, tfid, calls>>
       ELSE IF arg[p].create = ""
       THEN /\ ConcReturn(p, "error")
            /\ calls' = [calls EXCEPT ![p] = Append(@, Event("Create", "", FALSE))]
            /\ UNCHANGED <<arg, kind, res, tfid>>
       ELSE /\ res' = [res EXCEPT ![Local(p)].cid = arg[p].create]
            /\ calls' = [calls EXCEPT ![p] = Append(@, Event("Create", arg[p].create, TRUE))]
            /\ op' = [op EXCEPT ![p] = "created"]
            /\ UNCHANGED <<arg, kind, tfid, diags>>

\* d.SetId(c.CID), then the Read handler
ConcSetId(p) ==
    /\ op[p] = "created"
    /\ tfid' = [tfid EXCEPT ![p] = res[Local(p)].cid]
    /\ calls' = [calls EXCEPT ![p] = Append(@, Event("SetId", res[Local(p)].cid, TRUE))]
    /\ op' = [op EXCEPT ![p] = "reading"]
    /\ UNCHANGED <<arg, kind, res, diags>>

\* checkRead / ruleSetRead: cid := d.Id() and the fetch of that CID
ConcFetch(p) ==
    /\ op[p] = "reading"
    /\ res' = [res EXCEPT ![Local(p)].cid = tfid[p]]
    /\ calls' = [calls EXCEPT ![p] = Append(@, Event("Fetch", tfid[p], arg[p].fetch # "error"))]
    /\ IF arg[p].fetch = "error"
       THEN ConcReturn(p, "error")
       ELSE op' = [op EXCEPT ![p] = "fetched"] /\ UNCHANGED diags
    /\ UNCHANGED <<arg, kind, tfid>>

\* checkRead / ruleSetRead after the fetch: the ID and the attributes
ConcStore(p) ==
    /\ op[p] = "fetched"
    /\ LET store(r) ==
               /\ calls' = [calls EXCEPT ![p] = @ \o Tail(r.calls)]
               /\ tfid' = [tfid EXCEPT ![p] = r.tfid]
               /\ ConcReturn(p, r.diags)
       IN  store(ReadStepsOf(kind[p], res[Local(p)].cid, arg[p].fetch))
    /\ UNCHANGED <<arg, kind, res>>

NextConc ==
    \E p \in Procs :
        \/ ConcParse(p)
        \/ ConcCreate(p)
        \/ ConcSetId(p)
        \/ ConcFetch(p)
        \/ ConcStore(p)

SpecConc == InitConc /\ [][NextConc]_vars

\* what the invocation inv of a resource of kind k comes to when it runs
\* alone: the calls it issues, the final ID and what it returns
RunsAlone(k, inv, order) ==
    IF inv.entry = "Read" THEN ReadStepsOf(k, inv.id0, inv.fetch)
    ELSE IF ParsedOf(k, inv.d, order).err # ""
    THEN [calls |-> <<>>, tfid |-> inv.id0, diags |-> "error"]
    ELSE IF inv.create = ""
    THEN [calls |-> <<Event("Create", "", FALSE)>>, tfid |-> inv.id0, diags |-> "error"]
    ELSE Created(inv.create, ReadStepsOf(k, inv.create, inv.fetch))

-----------------------------------------------------------------------------
(* Properties of the check mappers *)

\* C1: Validate, run at the end of check ParseConfig, rejects a check bundle
\* whose metric list and metric_filter list are both non-empty, rejects one
\* whose two lists are both empty, and raises neither of the two errors when
\* exactly one of the lists is non-empty.  The lists of the bundle are the
\* `metric` and `metric_filter` blocks of the configuration.
C1_MetricsXorFilters ==
    op = "CheckParseConfig" =>
        LET c == res.c
            both == Len(c.Metrics) > 0 /\ Len(c.MetricFilters) > 0
            neither == Len(c.Metrics) = 0 /\ Len(c.MetricFilters) = 0
        IN  /\ Len(c.Metrics) = Len(arg.metric)
            /\ Len(c.MetricFilters) = Len(arg.metric_filter)
            /\ both => res.err = "Metrics and MetricFilters both have entries"
            /\ neither => res.err = "You must supply metric blocks or metric_filter blocks"
            /\ (~both /\ ~neither) =>
                  res.err \notin {"Metrics and MetricFilters both have entries",
                                  "You must supply metric blocks or metric_filter blocks"}

\* a configuration with metric_filter blocks only was parsed and accepted
C1_Witness ==
    /\ op = "CheckParseConfig"
    /\ Len(arg.metric) = 0
    /\ Len(arg.metric_filter) = MaxFilters
    /\ res.err = ""

\* the timeout of a check configuration in milliseconds (10 s when unset)
ConfiguredTimeout(d) == IF d.timeout = Unset THEN 10000 ELSE d.timeout

\* the period of a check configuration in whole seconds, the fraction of a
\* second dropped (60 s when unset)
ConfiguredPeriod(d) == IF d.period = Unset THEN 60 ELSE d.period \div 1000

-----------------------------------------------------------------------------
(* Properties of the graph mapper *)

\* a metric block uses the locator check + metric_name
UsesCheckName(b) == LocatorCheck(b) > 0 \/ LocatorName(b) # <<>>

\* the number of metric locators a metric block supplies
LocatorCount(b) ==
    (IF UsesCheckName(b) THEN 1 ELSE 0)
    + (IF LocatorCAQL(b) # <<>> THEN 1 ELSE 0)
    + (IF LocatorSearch(b) # <<>> THEN 1 ELSE 0)

\* a metric block supplies exactly one locator, and supplies it in full
ExactlyOneLocator(b) ==
    /\ LocatorCount(b) = 1
    /\ UsesCheckName(b) => (LocatorCheck(b) > 0 /\ LocatorName(b) # <<>>)

\* datapoint dp carries the one locator of block b and no other
OnlyThatLocator(b, dp) ==
    IF UsesCheckName(b)
    THEN dp.CheckID = LocatorCheck(b) /\ dp.MetricName = LocatorName(b)
         /\ dp.CAQL = Nil /\ dp.Search = Nil
    ELSE IF LocatorCAQL(b) # <<>>
    THEN dp.CheckID = 0 /\ dp.MetricName = <<>>
         /\ dp.CAQL = Ptr(LocatorCAQL(b)) /\ dp.Search = Nil
    ELSE dp.CheckID = 0 /\ dp.MetricName = <<>>
         /\ dp.CAQL = Nil /\ dp.Search = Ptr(LocatorSearch(b))

GraphLocatorErrors ==
    { "locator using metric_name requires check",
      "locator using check requires metric_name", "locator issue",
      "check is set, metric_name must also be set",
      "metric_name is set, check must also be set" }

\* C3 as stated: ParseConfig fails when a metric block supplies more than
\* one locator, and succeeds, with only that locator populated on each
\* datapoint, when every metric block supplies exactly one.
C3_Original ==
    op = "GraphParseConfig" =>
        /\ (\E i \in 1..Len(arg.metric) : LocatorCount(arg.metric[i]) > 1) => res.err # ""
        /\ (\A i \in 1..Len(arg.metric) : ExactlyOneLocator(arg.metric[i])) =>
              /\ res.err = ""
              /\ \A i \in 1..Len(arg.metric) :
                    OnlyThatLocator(arg.metric[i], res.g.Datapoints[i])

\* C3: ParseConfig fails when a metric block supplies more than one locator;
\* when every metric block supplies exactly one locator it raises no locator
\* error, and when it succeeds each datapoint carries only the locator of its
\* block.  (It can still fail on another ground: a function on a metric of
\* metric_type text.)
C3_OneLocator ==
    op = "GraphParseConfig" =>
        /\ (\E i \in 1..Len(arg.metric) : LocatorCount(arg.metric[i]) > 1) => res.err # ""
        /\ (\A i \in 1..Len(arg.metric) : ExactlyOneLocator(arg.metric[i])) =>
              /\ res.err \notin GraphLocatorErrors
              /\ res.err = "" =>
                    \A i \in 1..Len(arg.metric) :
                        OnlyThatLocator(arg.metric[i], res.g.Datapoints[i])

\* a graph whose blocks each supply one locator, a check + metric_name among
\* them and a search expression among them, was parsed and accepted
C3_Witness ==
    /\ op = "GraphParseConfig"
    /\ res.err = ""
    /\ \A i \in 1..Len(arg.metric) : ExactlyOneLocator(arg.metric[i])
    /\ \E i \in 1..Len(arg.metric) : res.g.Datapoints[i].CheckID > 0
    /\ \E i \in 1..Len(arg.metric) : res.g.Datapoints[i].Search # Nil

\* the number of locators set on an API datapoint
DatapointLocators(dp) ==
    (IF dp.CheckID # 0 \/ dp.MetricName # <<>> THEN 1 ELSE 0)
    + (IF dp.CAQL # Nil THEN 1 ELSE 0)
    + (IF dp.Search # Nil THEN 1 ELSE 0)

\* C4: every datapoint of a graph that ParseConfig accepts has exactly one
\* metric locator set; a metric block that supplies no locator is rejected.
C4_ExactlyOneLocatorPerDatapoint ==
    (op = "GraphParseConfig" /\ res.err = "") =>
        /\ \A i \in 1..Len(res.g.Datapoints) : DatapointLocators(res.g.Datapoints[i]) = 1
        /\ \A i \in 1..Len(arg.metric) : LocatorCount(arg.metric[i]) # 0

-----------------------------------------------------------------------------
(* Properties of the rule set mapper *)

\* a value block uses a criteria that exists only for text metrics
UsesTextCriteria(valueAttrs) ==
    \/ valueAttrs.contains # "" \/ valueAttrs.match # ""
    \/ valueAttrs.not_match # "" \/ valueAttrs.not_contain # ""

\* a value block uses a criteria that exists only for numeric metrics
UsesNumericCriteria(valueAttrs) ==
    \/ valueAttrs.min_value # "" \/ valueAttrs.max_value # ""
    \/ valueAttrs.eq_value # "" \/ valueAttrs.neq_value # ""

\* C5: ParseConfig fails for a rule set configuration of metric_type numeric
\* in which the value of an `if` block uses a text-only criteria, and for one
\* of metric_type text in which it uses a numeric-only criteria, so that
\* nothing is submitted.
C5_CriteriaMatchMetricType ==
    op = "RuleSetParseConfig" =>
        \A i \in 1..Len(arg.if) :
            Len(arg.if[i].value) > 0 =>
                /\ (arg.metric_type = ruleSetMetricTypeNumeric
                      /\ UsesTextCriteria(arg.if[i].value[1])) => res.err # ""
                /\ (arg.metric_type = ruleSetMetricTypeText
                      /\ UsesNumericCriteria(arg.if[i].value[1])) => res.err # ""

\* C6: Validate fails for every rule set that contains a rule whose
\* WindowingMinDuration is greater than its WindowingDuration, whatever the
\* rule's position, criteria or windowing function.
C6_WindowMinWithinWindow ==
    op = "RuleSetValidate" =>
        ((\E i \in 1..Len(arg.Rules) :
              arg.Rules[i].WindowingMinDuration > arg.Rules[i].WindowingDuration)
            => res.err # "")

\* an otherwise valid rule set was rejected for the window durations of its
\* last rule, a rule without a windowing function
C6_Witness ==
    /\ op = "RuleSetValidate"
    /\ Len(arg.Rules) = MaxRules
    /\ arg.Rules[MaxRules].WindowingMinDuration > arg.Rules[MaxRules].WindowingDuration
    /\ arg.Rules[MaxRules].WindowingFunction = Nil
    /\ arg.Rules[MaxRules].Criteria = apiRuleSetAbsent
    /\ res.err = "window_min_duration greater than the window duration"

-----------------------------------------------------------------------------
(* Properties of the http check type *)

\* the API config keys of the attributes of an `http` block
KnownHTTPKeys ==
    {HTTPStringAttrs[i][2] : i \in 1..Len(HTTPStringAttrs)} \cup {configReadLimit}

\* a key that is not an http attribute key, has not the header prefix and is
\* not whitelisted
UnknownHTTPKey(k) ==
    /\ k \notin KnownHTTPKeys
    /\ ~HasPrefix(k, configHeaderPrefix)
    /\ k \notin {configReverseSecretKey, configSubmissionURL}

\* C7: checkAPIToStateHTTP returns the PROVIDER BUG error whenever the API
\* config map holds an unknown key, whatever its length, and does not return
\* it when every key is known, header-prefixed or whitelisted.
C7_UnknownKeyIsProviderBug ==
    op = "checkAPIToStateHTTP" =>
        ((\E k \in DOMAIN arg : UnknownHTTPKey(k))
            <=> res.err = "PROVIDER BUG: API Config not empty")

\* C8: for every valid `http` block, reading back the API config map that
\* checkConfigToAPIHTTP wrote succeeds and yields every attribute of the
\* block as it was configured.
C8_HTTPRoundTrip ==
    op = "HTTPRoundTrip" =>
        /\ res.err = ""
        /\ \A a \in DOMAIN arg : a \in DOMAIN res.http /\ res.http[a] = arg[a]

-----------------------------------------------------------------------------
(* Properties of the CRUD entry points *)

CreateOps == {"checkCreate", "graphCreate", "contactGroupCreate", "ruleSetCreate"}
UpdateOps == {"checkUpdate", "graphUpdate", "contactGroupUpdate", "ruleSetUpdate"}

\* C9: for every resource kind, a Create or Update in which config parsing
\* or validation fails issues no vendor API call and no SetId, leaves the
\* Terraform ID as it was, and returns the error.
C9_ParseFailureAborts ==
    [][ (op' \in CreateOps \cup UpdateOps /\ res'.err # "") =>
            /\ calls' = <<>>
            /\ tfid' = tfid
            /\ ~res'.panic => diags' = "error" ]_vars

\* an Update of an existing resource whose configuration fails validation
\* returned the error
C9_Witness ==
    /\ op \in UpdateOps
    /\ res.err # "" /\ ~res.panic
    /\ tfid \in VendorCIDs
    /\ calls = <<>>
    /\ diags = "error"

\* C10: on Create, when parsing succeeds and the vendor create call succeeds,
\* the ID is set to the CID the vendor returned before the read-back, and the
\* read-back fetches that CID; when the vendor create call fails the ID stays
\* unset and no fetch is issued.
C10_CreateSetsIdThenReads ==
    (op \in CreateOps /\ res.err = "") =>
        /\ Len(calls) >= 1
        /\ calls[1].call = "Create"
        /\ calls[1].ok =>
              /\ calls[1].cid \in VendorCIDs
              /\ Len(calls) >= 3
              /\ calls[2] = Event("SetId", calls[1].cid, TRUE)
              /\ calls[3].call = "Fetch" /\ calls[3].cid = calls[1].cid
              /\ \A i \in 1..Len(calls) : calls[i].call = "Fetch" => i = 3
        /\ ~calls[1].ok =>
              /\ tfid = ""
              /\ diags = "error"
              /\ \A i \in 1..Len(calls) : calls[i].call \notin {"Fetch", "SetId"}

\* a rule set was created and read back under the CID the vendor returned
C10_Witness ==
    /\ op = "ruleSetCreate"
    /\ res.err = ""
    /\ Len(calls) >= 3
    /\ calls[1] = Event("Create", tfid, TRUE)
    /\ calls[3] = Event("Fetch", tfid, TRUE)
    /\ diags = "ok"

ReadOps == {"checkRead", "graphRead", "contactGroupRead", "ruleSetRead"}
DeleteOps == {"checkDelete", "graphDelete", "contactGroupDelete", "ruleSetDelete"}
VendorCalls == {"Create", "Update", "Fetch", "Delete"}

\* C11: for every resource kind, a Read whose fetch answers that the object
\* does not exist (an object without CID) ends with the Terraform ID cleared
\* and with at most a warning, never an error.
C11_NotFoundClearsId ==
    (op \in ReadOps /\ res.fetched = "absent") =>
        /\ tfid = ""
        /\ diags \in {"ok", "warning"}

\* C12: a Delete of any resource kind always ends with the Terraform ID
\* cleared and reports success, also when the vendor delete call fails.
C12_DeleteAlwaysClearsId ==
    op \in DeleteOps => (tfid = "" /\ diags = "ok")

\* C13: in every Create, Read, Update and Delete of every resource kind a
\* failed vendor call is the last call of the operation and the operation
\* returns an error.
C13_VendorErrorIsFatal ==
    op \in CreateOps \cup ReadOps \cup UpdateOps \cup DeleteOps =>
        \A i \in 1..Len(calls) :
            (calls[i].call \in VendorCalls /\ ~calls[i].ok) =>
                (i = Len(calls) /\ diags = "error")

\* C14: state attributes are stored only by Read: in a Create or Update
\* only after the fetch of the read-back, and never in a Delete.
C14_StateWrittenOnlyDuringRead ==
    \A i \in 1..Len(calls) :
        calls[i].call = "Set" =>
            /\ op \notin DeleteOps
            /\ \E j \in 1..(i - 1) : calls[j].call = "Fetch" /\ calls[j].ok

\* C15: for every check configuration that ParseConfig accepts, the status
\* submitted is "active" when `active` is true and "disabled" when it is
\* false, and checkRead maps the submitted status back to the configured
\* value of `active`.
C15_ActiveRoundTrip ==
    (op = "CheckParseConfig" /\ res.err = "") =>
        /\ res.c.Status = checkActiveToAPIStatus(arg.active)
        /\ checkAPIStatusToBool(res.c.Status) = arg.active

-----------------------------------------------------------------------------
(* Properties of the rule set mappers *)

\* the rule set before the `if` loop of ParseConfig
RuleSetBeforeIfs(d) ==
    [newRuleSet EXCEPT !.MetricType = d.metric_type, !.MetricName = d.metric_name,
                       !.MetricPattern = d.metric_pattern]

\* C16: each `if` block of an accepted rule set configuration yields exactly
\* one rule of the submitted rule set, in configuration order, and
\* ruleSetRead stores one `if` entry per rule, in the order of the rules.
C16_OneRulePerIfBlock ==
    (op = "RuleSetRoundTrip" /\ res.err = "") =>
        /\ Len(res.rs.Rules) = Len(arg.if)
        /\ \A i \in 1..Len(arg.if) :
              RuleSetParseIf(RuleSetBeforeIfs(arg), arg.if[i]).rs.Rules = <<res.rs.Rules[i]>>
        /\ res.read.err = ""
        /\ Len(res.read.if) = Len(arg.if)

\* C17: for an accepted rule set configuration whose `if` blocks all yield a
\* rule, the `after` that ruleSetRead stores for each rule equals the `after`
\* of the `then` block it was built from.
C17_AfterRoundTrip ==
    (op = "RuleSetRoundTrip" /\ res.err = "" /\ res.read.err = ""
       /\ Len(res.read.if) = Len(arg.if)) =>
        \A i \in 1..Len(arg.if) :
            Len(arg.if[i].then) = 1 =>
                res.read.if[i].then[1].after = arg.if[i].then[1].after

\* C18: ruleSetRead stores the severity of every rule, stores no notify
\* attribute for a rule of severity 0, and for a rule of severity s > 0
\* stores as notify the contact groups the fetched rule set registers under
\* s, the empty set when it registers none.
C18_NotifyOnlyAboveSeverityZero ==
    (op = "ruleSetRead" /\ res.err = "") =>
        \A i \in 1..Len(arg.Rules) :
            LET sev == arg.Rules[i].Severity
                then == res.if[i].then[1]
            IN  /\ then.severity = sev
                /\ sev = 0 => then.notify = Nil
                /\ sev > 0 =>
                      then.notify = Ptr(IF sev \in DOMAIN arg.ContactGroups
                                        THEN SeqToSet(arg.ContactGroups[sev]) ELSE {})

\* a fetched rule set with a rule of severity 0, read without notify although
\* contact groups are registered under 0, and a rule of severity 2 read with
\* the two contact groups registered under 2
C18_Witness ==
    /\ op = "ruleSetRead" /\ res.err = ""
    /\ Len(arg.Rules) = 2
    /\ arg.Rules[1].Severity = 0 /\ res.if[1].then[1].notify = Nil
    /\ arg.Rules[2].Severity = 2
    /\ res.if[2].then[1].notify = Ptr({"/contact_group/1", "/contact_group/2"})

-----------------------------------------------------------------------------
(* Properties of the duration attributes *)

\* C19: every duration kept in API seconds is stored as the decimal number
\* of seconds followed by "s": period and timeout of a fetched check, and
\* aggregation_window, reminder and escalate_after of a fetched contact
\* group, for every value including 60 and above.
C19_DurationsStoredAsSeconds ==
    /\ op = "checkReadDurations" =>
          /\ res.period = Itoa(arg.Period) \o <<"s">>
          /\ res.timeout = Itoa(arg.Timeout \div 1000) \o <<"s">>
    /\ op = "contactGroupReadDurations" =>
          /\ res.aggregation_window = Itoa(arg.AggregationWindow) \o <<"s">>
          /\ \A k \in 1..Len(res.alert_option) :
                LET o == res.alert_option[k]
                IN  /\ o.reminder # Nil =>
                          o.reminder = Ptr(Itoa(arg.Reminders[o.severity]) \o <<"s">>)
                    /\ o.escalate_after # Nil =>
                          o.escalate_after =
                              Ptr(Itoa(arg.Escalations[o.severity][1].After) \o <<"s">>)

-----------------------------------------------------------------------------
(* Properties of the graph axis encoding *)

\* the state axis the spec gives for an API axis
AxisOfAPI(a) == IF a = "r" THEN "right" ELSE "left"

\* C20: graphRead stores "left" for the API axes "l" and "" and "right" for
\* "r", for datapoints and metric clusters, and fails with a PROVIDER BUG
\* error on any other API axis; ParseConfig maps "left" and "" to "l" and
\* "right" to "r", and reading back the datapoints of an accepted
\* configuration stores the axes as configured.
C20_AxisEncoding ==
    /\ op = "graphReadAxes" =>
          IF \A i \in 1..Len(arg.Datapoints) : arg.Datapoints[i].Axis \in {"l", "r", ""}
          THEN IF \A i \in 1..Len(arg.MetricClusters) :
                     arg.MetricClusters[i].Axis \in {"l", "r", ""}
               THEN /\ res.err = ""
                    /\ res.metric =
                          [i \in 1..Len(arg.Datapoints) |-> AxisOfAPI(arg.Datapoints[i].Axis)]
                    /\ res.metric_cluster =
                          [i \in 1..Len(arg.MetricClusters) |->
                             AxisOfAPI(arg.MetricClusters[i].Axis)]
               ELSE res.err = "PROVIDER BUG: Unsupported axis type"
          ELSE res.err = "PROVIDER BUG: Unsupported axis type"
    /\ (op = "GraphAxisRoundTrip" /\ res.err = "") =>
          /\ \A i \in 1..Len(arg.metric) :
                res.g.Datapoints[i].Axis = (IF arg.metric[i].axis = "right" THEN "r" ELSE "l")
          /\ res.read.err = ""
          /\ res.read.metric = [i \in 1..Len(arg.metric) |-> arg.metric[i].axis]
          /\ graphAxisToAPI("") = [err |-> "", axis |-> "l"]

\* a fetched graph whose datapoints have the axes "" and "r" was read as
\* "left" and "right"
C20_Witness ==
    /\ op = "graphReadAxes"
    /\ Len(arg.Datapoints) = 2
    /\ arg.Datapoints[1].Axis = "" /\ arg.Datapoints[2].Axis = "r"
    /\ res.err = ""
    /\ res.metric = <<"left", "right">>

-----------------------------------------------------------------------------
(* Properties of the check type dispatch *)

\* the type blocks present in a check configuration
PresentTypes(d) == {t \in CheckTypeAttrs : Len(d[t]) > 0}

\* C21: checkConfigToAPI runs the per-type mapper of a check type if and
\* only if the block of that type is present in the configuration, and runs
\* it once: with exactly one type block exactly one mapper runs, and the
\* mapper of an absent block never runs.
C21_MapperRunsIffBlockPresent ==
    op = "CheckParseConfig" =>
        /\ SeqToSet(res.invoked) = PresentTypes(arg)
        /\ Len(res.invoked) = Cardinality(PresentTypes(arg))
        /\ Cardinality(PresentTypes(arg)) = 1 => Len(res.invoked) = 1

\* a configuration whose only type block is `tcp` was parsed by the tcp
\* mapper alone
C21_Witness ==
    /\ op = "CheckParseConfig"
    /\ PresentTypes(arg) = {checkTCPAttr}
    /\ res.invoked = <<checkTCPAttr>>
    /\ res.c.Type = apiCheckTypeTCP
    /\ res.err = ""

-----------------------------------------------------------------------------
(* Properties of the vendor calls of an entry point *)

ExistsOps == {"graphExists", "contactGroupExists"}
MutatingCalls == {"Create", "Update", "Delete"}

\* C22: every CRUD entry point of every resource kind issues at most one
\* mutating vendor call (create, update or delete) and at most one fetch, and
\* after a vendor call failed it does not issue that call again.
C22_NoRetries ==
    op \in CreateOps \cup ReadOps \cup UpdateOps \cup DeleteOps \cup ExistsOps =>
        /\ Cardinality({i \in 1..Len(calls) : calls[i].call \in MutatingCalls}) <= 1
        /\ Cardinality({i \in 1..Len(calls) : calls[i].call = "Fetch"}) <= 1
        /\ \A i \in 1..Len(calls) :
              (calls[i].call \in VendorCalls /\ ~calls[i].ok) =>
                  \A j \in (i + 1)..Len(calls) : calls[j].call # calls[i].call

\* an Update whose vendor update call failed went on to the one fetch of the
\* read-back without an update call after the failed one
C22_Witness ==
    /\ op = "ruleSetUpdate"
    /\ Len(calls) >= 2
    /\ calls[1] = Event("Update", tfid, FALSE)
    /\ calls[2] = Event("Fetch", tfid, TRUE)

-----------------------------------------------------------------------------
(* Properties of entry points that run at the same time *)

\* C23: entry points that run at the same time on distinct resources share
\* no mutable provider state: however their steps interleave, each ends
\* with the calls, the ID and the result it has when it runs alone against
\* the same answers of the vendor API.
C23_NoSharedProviderState ==
    \A p \in Procs :
        op[p] = "done" =>
            \E order \in CheckTypeOrders :
                [calls |-> calls[p], tfid |-> tfid[p], diags |-> diags[p]]
                    = RunsAlone(kind[p], arg[p], order)

\* a check and a rule set were created at the same time and each was read
\* back under the CID the vendor gave it
C23_Witness ==
    /\ \A p \in Procs : op[p] = "done" /\ arg[p].entry = "Create" /\ diags[p] = "ok"
    /\ tfid[1] = "/cid/1" /\ tfid[2] = "/cid/2"
    /\ Len(calls[1]) >= 4 /\ Len(calls[2]) >= 4

-----------------------------------------------------------------------------
(* Properties of the contact groups of a rule set *)

\* the list has no element twice
NoDuplicates(seq) == \A i, j \in 1..Len(seq) : seq[i] = seq[j] => i = j

\* C24: in the rule set that ParseConfig builds from an accepted
\* configuration, contact groups are registered only under the severities
\* 1..NumSeverityLevels (a rule of severity 0 registers none, whatever its
\* notify list), and no contact group is registered twice under a severity.
C24_ContactGroupsBySeverity ==
    (op = "RuleSetParseConfig" /\ res.err = "") =>
        /\ \A sev \in DOMAIN res.rs.ContactGroups :
              res.rs.ContactGroups[sev] # <<>> => sev \in 1..NumSeverityLevels
        /\ \A sev \in DOMAIN res.rs.ContactGroups : NoDuplicates(res.rs.ContactGroups[sev])

\* the members of the notify attribute stored for a rule, none when the
\* attribute is not stored
StoredNotify(then) == IF then.notify = Nil THEN {} ELSE then.notify[1]

\* C25: for every accepted rule set configuration whose `if` blocks all
\* yield a rule, also one in which two `if` blocks have the same severity
\* and different notify lists, the notify that ruleSetRead stores for each
\* rule is the notify list configured for that rule.
C25_NotifyRoundTrip ==
    (op = "RuleSetRoundTrip" /\ res.err = "" /\ res.read.err = ""
       /\ Len(res.read.if) = Len(arg.if)) =>
        \A i \in 1..Len(arg.if) :
            Len(arg.if[i].then) = 1 =>
                StoredNotify(res.read.if[i].then[1]) = SeqToSet(arg.if[i].then[1].notify)

-----------------------------------------------------------------------------
(* Properties of the check type submitted *)

\* C26: the check type and the config map that check ParseConfig builds are
\* a function of the configuration alone: on the same configuration, also
\* one with two different check type blocks, every run of ParseConfig gives
\* the same Type and the same config map.
C26_CheckTypeDeterministic ==
    op = "CheckParseConfig" =>
        \A order \in CheckTypeOrders :
            /\ CheckParseConfig(arg, order).c.Type = res.c.Type
            /\ CheckParseConfig(arg, order).c.Config = res.c.Config

\* C27: for every block attribute that getContactGroupInput reads, the
\* container kind it asserts on the value is the kind the schema declares,
\* and no contact group configuration makes getContactGroupInput panic: it
\* returns a contact group or an error.
C27_AssertedKindIsSchemaKind ==
    op = "ContactGroupRoundTrip" =>
        /\ ~res.panic
        /\ \A attr \in ContactGroupBlockAttrs :
               contactGroupAssertedKind(attr) = contactGroupSchemaKind(attr)

\* C28: every datapoint built by graph ParseConfig has Derive equal to the
\* boolean false or to a non-empty function string; graphRead accepts a
\* Derive exactly when it is a bool or a string and writes the function
\* attribute only for the string; so graphRead never returns the
\* "Unsupported type for derive" error on datapoints as ParseConfig built
\* them.
C28_DeriveBoolOrFunction ==
    /\ op = "GraphAxisRoundTrip" =>
           /\ \A i \in 1..Len(res.g.Datapoints) :
                  LET derive == res.g.Datapoints[i].Derive
                  IN  \/ derive = DeriveBool(FALSE)
                      \/ derive.type = "string" /\ derive.s # ""
           /\ res.derive.err = ""
           /\ Len(res.derive.function) = Len(res.g.Datapoints)
           /\ \A i \in 1..Len(res.g.Datapoints) :
                  res.derive.function[i] =
                      IF res.g.Datapoints[i].Derive.type = "string"
                      THEN Ptr(arg.metric[i].function) ELSE Nil
    /\ op = "graphReadDerive" =>
           /\ res.err = "" <=> \A i \in 1..Len(arg) : arg[i].Derive.type \in {"bool", "string"}
           /\ res.err = "" =>
                  \A i \in 1..Len(arg) :
                      res.function[i] # Nil <=> arg[i].Derive.type = "string"

\* a graph of two datapoints, one with a function and one without, is
\* accepted and read back
C28_Witness ==
    /\ op = "GraphAxisRoundTrip"
    /\ res.err = ""
    /\ res.derive.err = ""
    /\ \E i, j \in 1..Len(res.g.Datapoints) :
           /\ res.g.Datapoints[i].Derive = DeriveBool(FALSE)
           /\ res.derive.function[i] = Nil
           /\ res.g.Datapoints[j].Derive = DeriveString("gauge")
           /\ res.derive.function[j] = Ptr("gauge")

\* the positions of the alert options of severity s in a configuration
OptionsOfSeverity(d, s) == {i \in 1..Len(d.alert_option) : d.alert_option[i].severity = s}

\* the entries of severity s among the alert options read back
EntriesOfSeverity(read, s) == {i \in 1..Len(read) : read[i].severity = s}

C30_CloudWatchPeriodGranularity ==
    (op = "CheckParseConfig" /\ res.c.Type = apiCheckTypeCloudWatchAttr) =>
        /\ res.err = "" =>
               /\ res.c.Period \in {60, 300}
               /\ res.c.Period = 60 => MapGet(res.c.Config, configGranularity) = <<"1">>
               /\ res.c.Period = 300 => MapGet(res.c.Config, configGranularity) = <<"5">>
        /\ res.c.Period \notin {60, 300} =>
               /\ res.err # ""
               /\ res.c.Timeout <= res.c.Period * 1000 =>
                      res.err = "Period must be either 1m or 5m"

\* a cloudwatch check configured with a period of five minutes is accepted
\* with granularity "5"
C30_Witness ==
    /\ op = "CheckParseConfig"
    /\ arg.cloudwatch # <<>>
    /\ arg.period = 300000
    /\ res.err = ""
    /\ res.c.Type = apiCheckTypeCloudWatchAttr
    /\ res.c.Period = 300
    /\ MapGet(res.c.Config, configGranularity) = <<"5">>

====
